---- MODULE Spec2Model ----
(***************************************************************************)
(* A model of functions/main.py: the follow-up engine of the lead CRM.     *)
(*                                                                         *)
(* The document store holds two collections, leads and tasks.  Every       *)
(* write to a document is delivered later, as a change notification        *)
(* carrying the snapshot of the document at the write, to the handler      *)
(* registered for it (onLeadCreate, logProcessor, onTaskUpdate,            *)
(* onLeadDelete).  Callables (importContactsJson, mergeLeads,              *)
(* bulkDeleteLeads), the scheduled sweep (afcDailyAdvancer) and the        *)
(* client's own writes are the other operations.                           *)
(*                                                                         *)
(* Time is counted in whole days.                                          *)
(***************************************************************************)
EXTENDS Integers, Sequences, FiniteSets, TLC

\* ------------------------------------------------------------------ bounds
MaxLeads == 2      \* lead documents ever created
MaxTasks == 3      \* task documents ever created
MaxLog == 3        \* interactions in one lead's log
MaxNow == 6        \* days the clock runs
MaxOps == 3        \* requests of the client (writes and calls)
MaxRows == 5       \* rows in the list of one import
BATCH_LIMIT == 2   \* writes in a full batch of the import (499 in the source)
MaxMergeLeads == 3 \* lead documents ever created, where three leads are merged
MaxPhoneLen == 3    \* characters in the phone number of a row

VARIABLES
  leads,     \* the leads collection: lead id -> document
  tasks,     \* the tasks collection: a task's id is its index
  pending,   \* change notifications not yet delivered to their handler
  now,       \* the clock (datetime.now()), in days
  ops,       \* requests the client has made
  last,      \* the operation that took the last step, and what it returned
  race,      \* handler instances running at the same time, and where each is
  imp        \* the import in progress: its counters and its write batch

vars == <<leads, tasks, pending, now, ops, last, race, imp>>

LeadIds == DOMAIN leads
NoDate == 0 - 1

\* ------------------------------------------------------------ configuration
AFC_SCHEDULE == (1 :> 1) @@ (2 :> 3) @@ (3 :> 5) @@ (4 :> 7) @@ (5 :> 15)

\* f"Day {AFC_SCHEDULE[step]} Follow-up"
DayFollowUp(n) ==
  CASE n = 1 -> "Day 1 Follow-up"
    [] n = 3 -> "Day 3 Follow-up"
    [] n = 5 -> "Day 5 Follow-up"
    [] n = 7 -> "Day 7 Follow-up"
    [] n = 15 -> "Day 15 Follow-up"

\* f"Confirm attendance for {event_type}", f"Remind about {event_type}"
ConfirmDesc(event_type) ==
  CASE event_type = "Demo" -> "Confirm attendance for Demo"
    [] event_type = "Trial" -> "Confirm attendance for Trial"
    [] OTHER -> "Confirm attendance for Event"

RemindDesc(event_type) ==
  CASE event_type = "Demo" -> "Remind about Demo"
    [] event_type = "Trial" -> "Remind about Trial"
    [] OTHER -> "Remind about Event"

\* f"Payment reminder: installment of {amount} due tomorrow."
PaymentReminderDesc(amount) ==
  CASE amount = 100 -> "Payment reminder: installment of 100 due tomorrow."
    [] amount = 200 -> "Payment reminder: installment of 200 due tomorrow."

EnrolledSetupDesc == "For {name} create schedule, trainer and payplan"
LearnerImportDesc == "set schedule and plan for {name}"
DefaultInfoNotes == "Provide requested information."
EventKinds == {"Demo", "Trial", "Event"}

\* "Follow-up" in description
HasFollowUp(description) ==
  description \in {DayFollowUp(AFC_SCHEDULE[s]) : s \in DOMAIN AFC_SCHEDULE}
                    \cup {"Scheduled Follow-up"}

\* "Confirm" in description, "Remind" in description
HasConfirm(description) == description \in {ConfirmDesc(e) : e \in EventKinds}

HasRemind(description) == description \in {RemindDesc(e) : e \in EventKinds}

\* ------------------------------------------------------------ phone numbers
\* A value of a row as json.loads gives it: None, a str (its characters) or
\* an int.
Null == [json |-> "null", chars |-> <<>>, value |-> 0]

Text(chars) == [json |-> "string", chars |-> chars, value |-> 0]

Number(value) == [json |-> "number", chars |-> <<>>, value |-> value]

\* The characters a pattern's \d matches: the decimal digits of every script,
\* here those of ASCII and ARABIC-INDIC DIGIT THREE.
AsciiDigits == <<"0", "1", "2", "3", "4", "5", "6", "7", "8", "9">>

matches_d(c) == c = "U+0663" \/ \E i \in DOMAIN AsciiDigits : AsciiDigits[i] = c

\* str(phone_number)
RECURSIVE str_int(_)
str_int(value) ==
  IF value < 0 THEN <<"-">> \o str_int(0 - value)
  ELSE IF value < 10 THEN <<AsciiDigits[value + 1]>>
  ELSE Append(str_int(value \div 10), AsciiDigits[(value % 10) + 1])

str(phone_number) ==
  IF phone_number.json = "number" THEN str_int(phone_number.value)
  ELSE phone_number.chars

\* not phone_number
falsy(phone_number) ==
  \/ phone_number.json = "null"
  \/ phone_number.json = "string" /\ phone_number.chars = <<>>
  \/ phone_number.json = "number" /\ phone_number.value = 0

\* A variant of normalize_phone that keeps the plus sign of the country code.
normalize_phone_keep_plus(phone_number) ==
  IF falsy(phone_number) THEN <<>>
  ELSE LET s == str(phone_number)
           digits == SelectSeq(s, matches_d)
       IN IF s[1] = "+" THEN <<"+">> \o digits ELSE digits

\* re.sub(r'\D', '', str(phone_number)), "" for a value that is not truthy
normalize_phone(phone_number) ==
  IF falsy(phone_number) THEN <<>>
  ELSE SelectSeq(str(phone_number), matches_d)

\* ---------------------------------------------------------------- documents
NoLead ==
  [state |-> "none", email |-> "", phones |-> <<>>, relationship |-> "",
   status |-> "", afc_step |-> 0, hasEngaged |-> FALSE, interactions |-> <<>>,
   paymentPlan |-> <<>>]

DeletedLead == [NoLead EXCEPT !.state = "deleted"]

NoTask ==
  [state |-> "deleted", leadId |-> 0, description |-> "", nature |-> "",
   completed |-> FALSE, dueDate |-> NoDate]

Live(l) == leads[l].state = "live"

TaskIds(ts) == {i \in DOMAIN ts : ts[i].state = "live"}

\* create_task: a new document in the tasks collection
create_task(ts, lead_id, description, nature, due_date) ==
  Append(ts, [state |-> "live", leadId |-> lead_id, description |-> description,
              nature |-> nature, completed |-> FALSE, dueDate |-> due_date])

\* ----------------------------------------------------------- payment plan
\* One entry of paymentPlan.installments; a plan is the list of them, and the
\* empty list stands for a lead without a plan.
Installment(id, amount, status, dueDate) ==
  [id |-> id, amount |-> amount, status |-> status, dueDate |-> dueDate]

\* {inst['id']: inst for inst in installments}: the keys in the order of their
\* first entry, each with its last entry.
RECURSIVE dict_keys(_)
dict_keys(installments) ==
  IF installments = <<>> THEN <<>>
  ELSE LET front == dict_keys(SubSeq(installments, 1, Len(installments) - 1))
           k == installments[Len(installments)].id
       IN IF \E i \in DOMAIN front : front[i] = k THEN front ELSE Append(front, k)

dict_has(installments, k) == \E i \in DOMAIN installments : installments[i].id = k

dict_get(installments, k) ==
  LET at == {i \in DOMAIN installments : installments[i].id = k}
  IN installments[CHOOSE i \in at : \A j \in at : j <= i]

\* tasks_ref.where("leadId", "==", lead_id).where("description", "==", desc)
tasks_described(ts, lead_id, desc) ==
  {t \in TaskIds(ts) : ts[t].leadId = lead_id /\ ts[t].description = desc}

\* .limit(1): the first in document-id order, which the store assigns at random
limit_1(S, first) ==
  IF first = "lowest" THEN CHOOSE t \in S : \A u \in S : t <= u
  ELSE CHOOSE t \in S : \A u \in S : u <= t

\* sync_payment_plan_tasks, the first loop: the writes it puts in the batch.
\* Every query reads the collection as it was before the commit.
RECURSIVE plan_upserts(_, _, _, _, _)
plan_upserts(keys, installments_after, ts, lead_id, first) ==
  IF keys = <<>> THEN <<>>
  ELSE LET inst_after == dict_get(installments_after, Head(keys))
           reminder_due_date == inst_after.dueDate - 1
           desc == PaymentReminderDesc(inst_after.amount)
           found == tasks_described(ts, lead_id, desc)
           rest == plan_upserts(Tail(keys), installments_after, ts, lead_id, first)
       IN IF inst_after.status # "Unpaid" \/ inst_after.dueDate = NoDate
          THEN rest
          ELSE IF found # {}
          THEN IF ts[limit_1(found, first)].dueDate # reminder_due_date
               THEN <<[kind |-> "update", id |-> limit_1(found, first),
                       dueDate |-> reminder_due_date, description |-> desc]>> \o rest
               ELSE rest
          ELSE <<[kind |-> "set", id |-> 0, dueDate |-> reminder_due_date,
                  description |-> desc]>> \o rest

\* sync_payment_plan_tasks, the second loop: the tasks it deletes, found by the
\* description of the installment as it was before.
plan_deletes(installments_before, installments_after, ts, lead_id) ==
  {t \in TaskIds(ts) :
     \E i \in DOMAIN dict_keys(installments_before) :
        LET inst_id == dict_keys(installments_before)[i]
            inst_before == dict_get(installments_before, inst_id)
            is_removed == ~dict_has(installments_after, inst_id)
            is_paid == /\ dict_has(installments_after, inst_id)
                       /\ dict_get(installments_after, inst_id).status = "Paid"
        IN /\ is_removed \/ is_paid
           /\ t \in tasks_described(ts, lead_id, PaymentReminderDesc(inst_before.amount))}

\* batch.commit(): the sets and updates in the order they were added, then the
\* deletes.
RECURSIVE plan_commit(_, _, _)
plan_commit(batch, ts, lead_id) ==
  IF batch = <<>> THEN ts
  ELSE LET w == Head(batch)
       IN plan_commit(Tail(batch),
                      IF w.kind = "set"
                      THEN create_task(ts, lead_id, w.description, "Procedural", w.dueDate)
                      ELSE [ts EXCEPT ![w.id].dueDate = w.dueDate],
                      lead_id)

sync_payment_plan_tasks(ts, lead_id, plan_before, plan_after, first) ==
  LET upserts == plan_upserts(dict_keys(plan_after), plan_after, ts, lead_id, first)
      deletes == plan_deletes(plan_before, plan_after, ts, lead_id)
      written == plan_commit(upserts, ts, lead_id)
  IN [t \in DOMAIN written |->
        IF t \in deletes THEN [written[t] EXCEPT !.state = "deleted"] ELSE written[t]]

\* ------------------------------------------------------------- interactions
\* One embedded entry of a lead's interactions array, with the fields
\* logProcessor reads.  "" and NoDate stand for an absent key.  createdAt is
\* the time of the write, as fine as two entries of one id need telling apart.
\* feedback stands for feedback or infoLogs, which the dispatcher treats alike;
\* zone tells whether the dateTime string ends in Z or an offset.
Interaction(id, quickLogType) ==
  [id |-> id, createdAt |-> 0, quickLogType |-> quickLogType, feedback |-> FALSE,
   outcome |-> "", notes |-> "", followUpDate |-> NoDate, eventType |-> "",
   dateTime |-> NoDate, zone |-> FALSE, rescheduledFrom |-> FALSE]

\* notes of a cancelled event: "Event" in notes and "marked as Cancelled" in notes
CancelNote(event_type) ==
  CASE event_type = "Demo" -> "Event Demo marked as Cancelled"
    [] event_type = "Trial" -> "Event Trial marked as Cancelled"

IsCancelNote(notes) == notes \in {CancelNote(e) : e \in {"Demo", "Trial"}}

\* notes.split(" ")[1]
CancelNoteType(notes) == CHOOSE e \in {"Demo", "Trial"} : CancelNote(e) = notes

\* firestore.ArrayUnion: each element not already in the array (compared as a
\* whole value) is appended, in order.
RECURSIVE ArrayUnion(_, _)
ArrayUnion(array, elements) ==
  IF elements = <<>> THEN array
  ELSE LET e == Head(elements)
           present == \E i \in DOMAIN array : array[i] = e
       IN ArrayUnion(IF present THEN array ELSE Append(array, e), Tail(elements))

\* ---------------------------------------------------------- task reconciler
complete_open_interactive_tasks(ts, lead_id) ==
  [i \in DOMAIN ts |->
     IF /\ ts[i].state = "live"
        /\ ts[i].leadId = lead_id
        /\ ~ts[i].completed
        /\ ts[i].nature = "Interactive"
     THEN [ts[i] EXCEPT !.completed = TRUE]
     ELSE ts[i]]

delete_pending_followups(ts, lead_id) ==
  [i \in DOMAIN ts |->
     IF /\ ts[i].state = "live"
        /\ ts[i].leadId = lead_id
        /\ ~ts[i].completed
        /\ HasFollowUp(ts[i].description)
     THEN NoTask
     ELSE ts[i]]

delete_event_tasks(ts, lead_id, event_type) ==
  IF event_type = "" THEN ts
  ELSE [i \in DOMAIN ts |->
          IF /\ ts[i].state = "live"
             /\ ts[i].leadId = lead_id
             /\ ~ts[i].completed
             /\ ts[i].description \in {RemindDesc(event_type), ConfirmDesc(event_type)}
          THEN NoTask
          ELSE ts[i]]

\* A variant of reset_afc_for_engagement that leaves the stage as it was.
reset_afc_keep_step(lead_id, cur, ts) ==
  [lead |-> cur,
   tasks |-> create_task(delete_pending_followups(ts, lead_id), lead_id,
                         DayFollowUp(AFC_SCHEDULE[1]), "Interactive",
                         now + AFC_SCHEDULE[1])]

\* The operators below take the lead's stored document (cur) and the tasks
\* collection (ts) and give both as the handler leaves them.
reset_afc_for_engagement(lead_id, cur, ts) ==
  [lead |-> [cur EXCEPT !.afc_step = 1],
   tasks |-> create_task(delete_pending_followups(ts, lead_id), lead_id,
                         DayFollowUp(AFC_SCHEDULE[1]), "Interactive",
                         now + AFC_SCHEDULE[1])]

\* A variant of init_afc that makes the first follow-up due today.
init_afc_due_today(lead_id, cur, ts) ==
  [lead |-> [cur EXCEPT !.afc_step = 1, !.status = "Active"],
   tasks |-> create_task(ts, lead_id, DayFollowUp(AFC_SCHEDULE[1]), "Interactive", now)]

\* onLeadCreate, a lead written with no status: the cycle starts.
init_afc(lead_id, cur, ts) ==
  [lead |-> [cur EXCEPT !.afc_step = 1, !.status = "Active"],
   tasks |-> create_task(ts, lead_id, DayFollowUp(AFC_SCHEDULE[1]), "Interactive",
                         now + AFC_SCHEDULE[1])]

\* if not data_after.get("hasEngaged"): lead_ref.update({"hasEngaged": True})
mark_engaged(cur, data_after) ==
  IF ~data_after.hasEngaged THEN [cur EXCEPT !.hasEngaged = TRUE] ELSE cur

\* A variant of log_unresponsive that takes the number of the step for the
\* number of days to wait.
log_unresponsive_step_days(lead_id, cur, ts, data_after) ==
  LET current_step == data_after.afc_step
      has_engaged == data_after.hasEngaged
      next_step == current_step + 1
  IN IF current_step = 2 /\ has_engaged
     THEN [lead |-> [cur EXCEPT !.status = "Cooling", !.afc_step = 0], tasks |-> ts]
     ELSE IF next_step \in DOMAIN AFC_SCHEDULE
     THEN [lead |-> [cur EXCEPT !.afc_step = next_step],
           tasks |-> create_task(ts, lead_id, DayFollowUp(AFC_SCHEDULE[next_step]),
                                 "Interactive", now + next_step)]
     ELSE [lead |-> [cur EXCEPT !.status = IF has_engaged THEN "Cooling" ELSE "Dormant",
                                !.afc_step = 0],
           tasks |-> ts]

\* A variant of log_unresponsive that ends every exhausted cycle as Dormant.
log_unresponsive_all_dormant(lead_id, cur, ts, data_after) ==
  LET current_step == data_after.afc_step
      has_engaged == data_after.hasEngaged
      next_step == current_step + 1
  IN IF current_step = 2 /\ has_engaged
     THEN [lead |-> [cur EXCEPT !.status = "Cooling", !.afc_step = 0], tasks |-> ts]
     ELSE IF next_step \in DOMAIN AFC_SCHEDULE
     THEN [lead |-> [cur EXCEPT !.afc_step = next_step],
           tasks |-> create_task(ts, lead_id, DayFollowUp(AFC_SCHEDULE[next_step]),
                                 "Interactive", now + AFC_SCHEDULE[next_step])]
     ELSE [lead |-> [cur EXCEPT !.status = "Dormant", !.afc_step = 0],
           tasks |-> ts]

\* A variant of log_unresponsive without the short cut at the Day 3 stage.
log_unresponsive_no_short_cut(lead_id, cur, ts, data_after) ==
  LET current_step == data_after.afc_step
      has_engaged == data_after.hasEngaged
      next_step == current_step + 1
  IN IF next_step \in DOMAIN AFC_SCHEDULE
     THEN [lead |-> [cur EXCEPT !.afc_step = next_step],
           tasks |-> create_task(ts, lead_id, DayFollowUp(AFC_SCHEDULE[next_step]),
                                 "Interactive", now + AFC_SCHEDULE[next_step])]
     ELSE [lead |-> [cur EXCEPT !.status = IF has_engaged THEN "Cooling" ELSE "Dormant",
                                !.afc_step = 0],
           tasks |-> ts]

\* logProcessor, quickLogType == "Unresponsive"
log_unresponsive(lead_id, cur, ts, data_after) ==
  LET current_step == data_after.afc_step
      has_engaged == data_after.hasEngaged
      next_step == current_step + 1
  IN IF current_step = 2 /\ has_engaged
     THEN [lead |-> [cur EXCEPT !.status = "Cooling", !.afc_step = 0], tasks |-> ts]
     ELSE IF next_step \in DOMAIN AFC_SCHEDULE
     THEN [lead |-> [cur EXCEPT !.afc_step = next_step],
           tasks |-> create_task(ts, lead_id, DayFollowUp(AFC_SCHEDULE[next_step]),
                                 "Interactive", now + AFC_SCHEDULE[next_step])]
     ELSE [lead |-> [cur EXCEPT !.status = IF has_engaged THEN "Cooling" ELSE "Dormant",
                                !.afc_step = 0],
           tasks |-> ts]

\* A variant of log_closed that leaves the stage as it was.
log_closed_keep_step(lead_id, cur, ts, quick_log_type) ==
  IF quick_log_type = "Enrolled"
  THEN [lead |-> [cur EXCEPT !.status = "Enrolled", !.relationship = "Learner"],
        tasks |-> delete_pending_followups(
                    create_task(ts, lead_id, EnrolledSetupDesc, "Procedural", now + 1),
                    lead_id)]
  ELSE [lead |-> [cur EXCEPT !.status = quick_log_type],
        tasks |-> delete_pending_followups(ts, lead_id)]

\* logProcessor, quickLogType in Enrolled, Withdrawn, Invalid
log_closed(lead_id, cur, ts, quick_log_type) ==
  IF quick_log_type = "Enrolled"
  THEN [lead |-> [cur EXCEPT !.status = "Enrolled", !.afc_step = 0,
                             !.relationship = "Learner"],
        tasks |-> delete_pending_followups(
                    create_task(ts, lead_id, EnrolledSetupDesc, "Procedural", now + 1),
                    lead_id)]
  ELSE [lead |-> [cur EXCEPT !.status = quick_log_type, !.afc_step = 0],
        tasks |-> delete_pending_followups(ts, lead_id)]

\* A variant of log_info that also completes the open Interactive tasks.
log_info_completes_open(lead_id, cur, ts, interaction_data) ==
  [lead |-> [cur EXCEPT !.afc_step = 0],
   tasks |-> create_task(complete_open_interactive_tasks(ts, lead_id), lead_id,
                         IF interaction_data.notes = "" THEN DefaultInfoNotes
                         ELSE interaction_data.notes,
                         "Procedural", now + 1)]

\* logProcessor, outcome == "Info"
log_info(lead_id, cur, ts, interaction_data) ==
  [lead |-> [cur EXCEPT !.afc_step = 0],
   tasks |-> create_task(ts, lead_id,
                         IF interaction_data.notes = "" THEN DefaultInfoNotes
                         ELSE interaction_data.notes,
                         "Procedural", now + 1)]

\* logProcessor, the outcome logs
log_outcome(lead_id, cur, ts, data_after, interaction_data) ==
  LET engaged == mark_engaged(cur, data_after)
      outcome == interaction_data.outcome
      event_type == IF interaction_data.eventType = "" THEN "Event"
                    ELSE interaction_data.eventType
      event_time == interaction_data.dateTime
      t1 == IF interaction_data.rescheduledFrom
            THEN delete_event_tasks(ts, lead_id, interaction_data.eventType)
            ELSE ts
      t2 == complete_open_interactive_tasks(t1, lead_id)
      t3 == IF event_time = NoDate THEN t2
            ELSE create_task(t2, lead_id, ConfirmDesc(event_type), "Procedural",
                             event_time)
      \* (event_time - datetime.now()).days: of a time with a zone and one
      \* without, the subtraction raises TypeError and the handler ends there
      t4 == IF event_time # NoDate /\ ~interaction_data.zone /\ event_time - now >= 3
            THEN create_task(t3, lead_id, RemindDesc(event_type), "Procedural",
                             event_time - 1)
            ELSE t3
  IN CASE outcome = "Info" -> log_info(lead_id, engaged, ts, interaction_data)
       [] outcome = "Later" ->
            IF interaction_data.followUpDate # NoDate
            THEN [lead |-> [engaged EXCEPT !.afc_step = 0],
                  tasks |-> create_task(ts, lead_id, "Scheduled Follow-up",
                                        "Interactive", interaction_data.followUpDate)]
            ELSE [lead |-> engaged, tasks |-> ts]
       [] outcome = "Event Scheduled" -> [lead |-> engaged, tasks |-> t4]
       [] OTHER ->
            IF IsCancelNote(interaction_data.notes)
            THEN [lead |-> engaged,
                  tasks |-> delete_event_tasks(ts, lead_id,
                                               CancelNoteType(interaction_data.notes))]
            ELSE [lead |-> engaged, tasks |-> ts]

\* logProcessor, from "Type-Specific Logic" on: what one new interaction does
dispatch(lead_id, cur, ts, data_after, interaction_data) ==
  LET quick_log_type == interaction_data.quickLogType
      t1 == complete_open_interactive_tasks(ts, lead_id)
      engaged == mark_engaged(cur, data_after)
  IN IF interaction_data.feedback
     THEN [lead |-> engaged, tasks |-> ts]
     ELSE IF interaction_data.outcome # ""
     THEN log_outcome(lead_id, cur, ts, data_after, interaction_data)
     ELSE IF quick_log_type \in {"Enrolled", "Withdrawn", "Invalid"}
     THEN log_closed(lead_id, engaged, t1, quick_log_type)
     ELSE IF quick_log_type = "Unresponsive"
     THEN log_unresponsive(lead_id, engaged, t1, data_after)
     ELSE reset_afc_for_engagement(lead_id, engaged, t1)

\* logProcessor in two steps, for instances that run side by side.  The first
\* step goes as far as the completion of the open Interactive tasks and the
\* hasEngaged update of a quick log; the second is the rest.
dispatch_begin(lead_id, cur, ts, data_after, interaction_data) ==
  IF interaction_data.feedback \/ interaction_data.outcome # ""
  THEN [lead |-> cur, tasks |-> ts]
  ELSE [lead |-> mark_engaged(cur, data_after),
        tasks |-> complete_open_interactive_tasks(ts, lead_id)]

dispatch_end(lead_id, cur, ts, data_after, interaction_data) ==
  LET quick_log_type == interaction_data.quickLogType
  IN IF interaction_data.feedback
     THEN [lead |-> mark_engaged(cur, data_after), tasks |-> ts]
     ELSE IF interaction_data.outcome # ""
     THEN log_outcome(lead_id, cur, ts, data_after, interaction_data)
     ELSE IF quick_log_type \in {"Enrolled", "Withdrawn", "Invalid"}
     THEN log_closed(lead_id, cur, ts, quick_log_type)
     ELSE IF quick_log_type = "Unresponsive"
     THEN log_unresponsive(lead_id, cur, ts, data_after)
     ELSE reset_afc_for_engagement(lead_id, cur, ts)


\* ------------------------------------------------------------ notifications
\* A change notification: the handler it goes to, the document's id, the
\* snapshot of the document after the write and, of the snapshot before it,
\* what logProcessor reads: the payment plan and the length of the log.
NoNote ==
  [type |-> "none", id |-> 0, doc |-> NoLead, task |-> NoTask,
   plan_before |-> <<>>, logged_before |-> 0]

lead_created(lead_id, doc) == [NoNote EXCEPT !.type = "leadCreated", !.id = lead_id, !.doc = doc]

lead_updated(lead_id, doc) == [NoNote EXCEPT !.type = "leadUpdated", !.id = lead_id, !.doc = doc]

lead_deleted(lead_id) == [NoNote EXCEPT !.type = "leadDeleted", !.id = lead_id]

task_updated(task_id, doc) == [NoNote EXCEPT !.type = "taskUpdated", !.id = task_id, !.task = doc]

\* logProcessor returns at once unless the update changed the payment plan or
\* added an interaction, so only such updates are queued.
interaction_added(data_before, data_after) ==
  Len(data_after.interactions) > Len(data_before.interactions)

lead_write(lead_id, data_before, data_after) ==
  IF \/ interaction_added(data_before, data_after)
     \/ data_after.paymentPlan # data_before.paymentPlan
  THEN {[lead_updated(lead_id, data_after) EXCEPT
           !.plan_before = data_before.paymentPlan,
           !.logged_before = Len(data_before.interactions)]}
  ELSE {}

NoResult ==
  [created |-> 0, updated |-> 0, skipped |-> 0, preview |-> 0, raised |-> FALSE,
   code |-> ""]

\* The step taken last: the operation, the document it was about, the event
\* it was given, what it returned and, of an import, the phone of its row.
Did(op, id, n, res) ==
  [op |-> op, id |-> id, n |-> n, res |-> res, phone_number |-> Null]

FreeLeadIds == {l \in LeadIds : leads[l].state = "none"}

new_lead_id == CHOOSE l \in FreeLeadIds : \A k \in FreeLeadIds : l <= k

\* No import is running.
NoImport ==
  [on |-> FALSE, is_new_mode |-> FALSE, is_dry_run |-> FALSE, call |-> 0,
   seconds |-> 0, rows |-> 0,
   created_count |-> 0, updated_count |-> 0, skipped_count |-> 0,
   preview_data |-> <<>>, skipped_data |-> <<>>, batch |-> <<>>, commits |-> 0]

\* No handler instances are running side by side.
NoRace ==
  [kind |-> "none", lead |-> 0, leads0 |-> <<>>, tasks0 |-> <<>>, pending0 |-> {},
   procs |-> <<>>]

Init ==
  /\ leads = [l \in 1..MaxLeads |-> NoLead]
  /\ tasks = <<>>
  /\ pending = {}
  /\ now = 0
  /\ ops = 0
  /\ last = Did("init", 0, NoNote, NoResult)
  /\ race = NoRace
  /\ imp = NoImport

\* One more request of the client.
Request ==
  /\ ops < MaxOps
  /\ ops' = ops + 1

\* -------------------------------------------------------------- the clock
\* Time passes, until just after the due date of some open task; max_now is
\* the last day of the run.
TickUpTo(max_now) ==
  /\ \E t \in TaskIds(tasks) :
       /\ ~tasks[t].completed
       /\ tasks[t].dueDate # NoDate
       /\ tasks[t].dueDate >= now
       /\ now' = tasks[t].dueDate + 1
  /\ now' <= max_now
  /\ last' = Did("tick", 0, NoNote, NoResult)
  /\ UNCHANGED <<leads, tasks, pending, ops, race, imp>>

Tick == TickUpTo(MaxNow)

\* ------------------------------------------------------------- the client
\* The client adds a lead by hand: a document with a name and no status.
CreateLeadManual ==
  /\ Request
  /\ FreeLeadIds # {}
  /\ LET l == new_lead_id
         doc == [NoLead EXCEPT !.state = "live", !.relationship = "Lead"]
     IN /\ leads' = [leads EXCEPT ![l] = doc]
        /\ pending' = pending \cup {lead_created(l, doc)}
        /\ last' = Did("createLead", l, NoNote, NoResult)
  /\ UNCHANGED <<tasks, now, race, imp>>

\* The client appends one interaction to a lead's log.
ClientLog(l, i) ==
  /\ Request
  /\ Live(l)
  /\ Len(leads[l].interactions) < MaxLog
  /\ LET after == [leads[l] EXCEPT !.interactions = Append(@, i)]
     IN /\ leads' = [leads EXCEPT ![l] = after]
        /\ pending' = pending \cup lead_write(l, leads[l], after)
        /\ last' = Did("clientLog", l, NoNote, NoResult)
  /\ UNCHANGED <<tasks, now, race, imp>>

\* The client saves a lead's payment plan.
ClientSetPlan(l, plan) ==
  /\ Request
  /\ Live(l)
  /\ plan # leads[l].paymentPlan
  /\ LET after == [leads[l] EXCEPT !.paymentPlan = plan]
     IN /\ leads' = [leads EXCEPT ![l] = after]
        /\ pending' = pending \cup lead_write(l, leads[l], after)
        /\ last' = Did("clientSetPlan", l, NoNote, NoResult)
  /\ UNCHANGED <<tasks, now, race, imp>>

\* The client ticks off an operator chore (a Procedural task).
ClientCompleteTask(t) ==
  /\ Request
  /\ t \in TaskIds(tasks)
  /\ ~tasks[t].completed
  /\ tasks[t].nature = "Procedural"
  /\ tasks' = [tasks EXCEPT ![t].completed = TRUE]
  /\ pending' = pending \cup {task_updated(t, tasks'[t])}
  /\ last' = Did("completeTask", t, NoNote, NoResult)
  /\ UNCHANGED <<leads, now, race, imp>>

\* ------------------------------------------------------------ the handlers
\* max_tasks is the number of task documents the run may hold.
onLeadCreateUpTo(n, max_tasks) ==
  /\ n \in pending
  /\ n.type = "leadCreated"
  /\ LET lead_id == n.id
         lead_data == n.doc
     IN IF lead_data.afc_step > 0
        THEN UNCHANGED <<leads, tasks>>
        ELSE IF lead_data.status # ""
        THEN /\ tasks' = IF lead_data.relationship = "Lead"
                         THEN create_task(tasks, lead_id, "Send initial contact",
                                          "Interactive", now)
                         ELSE tasks
             /\ UNCHANGED leads
        ELSE IF ~Live(lead_id)
        THEN UNCHANGED <<leads, tasks>>     \* reference.update raises NotFound
        ELSE LET r == init_afc(lead_id, leads[lead_id], tasks)
             IN /\ leads' = [leads EXCEPT ![lead_id] = r.lead]
                /\ tasks' = r.tasks
  /\ Len(tasks') <= max_tasks
  /\ pending' = pending \ {n}
  /\ last' = Did("onLeadCreate", n.id, n, NoResult)
  /\ UNCHANGED <<now, race, ops, imp>>

onLeadCreate(n) == onLeadCreateUpTo(n, MaxTasks)

logProcessorUpTo(n, max_tasks) ==
  /\ n \in pending
  /\ n.type = "leadUpdated"
  /\ \E first \in {"lowest", "highest"} :
       LET lead_id == n.id
           data_after == n.doc
           plan_after == data_after.paymentPlan
           plan_before == n.plan_before
           synced == IF plan_after # plan_before
                     THEN sync_payment_plan_tasks(tasks, lead_id, plan_before,
                                                  plan_after, first)
                     ELSE tasks
           interaction_data == data_after.interactions[Len(data_after.interactions)]
       IN IF Len(data_after.interactions) <= n.logged_before
          THEN /\ tasks' = synced
               /\ UNCHANGED leads
          ELSE IF ~Live(lead_id)
          THEN /\ tasks' = synced          \* the first lead_ref.update raises NotFound
               /\ UNCHANGED leads
          ELSE LET r == dispatch(lead_id, leads[lead_id], synced, data_after,
                                 interaction_data)
               IN /\ leads' = [leads EXCEPT ![lead_id] = r.lead]
                  /\ tasks' = r.tasks
  /\ Len(tasks') <= max_tasks
  /\ pending' = pending \ {n}
  /\ last' = Did("logProcessor", n.id, n, NoResult)
  /\ UNCHANGED <<now, race, ops, imp>>

logProcessor(n) == logProcessorUpTo(n, MaxTasks)

onTaskUpdate(n) ==
  /\ n \in pending
  /\ n.type = "taskUpdated"
  /\ LET task_id == n.id
         data_after == n.task
         lead_id == data_after.leadId
         interaction == Interaction(<<"sys_task", task_id, 0>>, "Followup")
         resets == /\ data_after.nature = "Procedural"
                   /\ lead_id # 0
                   /\ ~HasFollowUp(data_after.description)
                   /\ ~HasConfirm(data_after.description)
                   /\ ~HasRemind(data_after.description)
     IN IF resets /\ Live(lead_id)          \* lead_ref.update raises NotFound otherwise
        THEN LET after == [leads[lead_id] EXCEPT
                             !.interactions = ArrayUnion(@, <<interaction>>)]
             IN /\ leads' = [leads EXCEPT ![lead_id] = after]
                /\ pending' = (pending \ {n}) \cup lead_write(lead_id, leads[lead_id], after)
                /\ Len(after.interactions) <= MaxLog
        ELSE /\ UNCHANGED leads
             /\ pending' = pending \ {n}
  /\ last' = Did("onTaskUpdate", n.id, n, NoResult)
  /\ UNCHANGED <<tasks, now, race, ops, imp>>

onLeadDelete(n) ==
  /\ n \in pending
  /\ n.type = "leadDeleted"
  /\ tasks' = [i \in DOMAIN tasks |->
                 IF tasks[i].state = "live" /\ tasks[i].leadId = n.id
                 THEN NoTask ELSE tasks[i]]
  /\ pending' = pending \ {n}
  /\ last' = Did("onLeadDelete", n.id, n, NoResult)
  /\ UNCHANGED <<leads, now, race, ops, imp>>


\* ---------------------------------------------------------- the daily sweep
\* The query of afcDailyAdvancer: open Interactive tasks due before now.
overdue_tasks(ts) ==
  {t \in TaskIds(ts) : /\ ~ts[t].completed
                       /\ ts[t].nature = "Interactive"
                       /\ ts[t].dueDate # NoDate
                       /\ ts[t].dueDate < now}

\* The orders the query may stream them in: by dueDate, ties in document-id
\* order, which the store assigns at random.
query_orders(ts, S) ==
  {o \in [1..Cardinality(S) -> S] :
     /\ \A i, j \in DOMAIN o : i # j => o[i] # o[j]
     /\ \A i, j \in DOMAIN o : i < j => ts[o[i]].dueDate <= ts[o[j]].dueDate}

\* A variant of sweep_task that completes the task and logs nothing.
sweep_task_silent(t, ls, ts, stamp) ==
  IF ts[t].leadId = 0
  THEN [leads |-> ls, tasks |-> ts, notes |-> {}, raised |-> FALSE]
  ELSE [leads |-> ls, tasks |-> [ts EXCEPT ![t].completed = TRUE], notes |-> {},
        raised |-> ls[ts[t].leadId].state # "live"]

\* afcDailyAdvancer, the body of the loop for one streamed task; stamp is the
\* createdAt of the interaction it logs.  An update of a lead that does not
\* exist raises, and nothing catches it.
sweep_task(t, ls, ts, stamp) ==
  LET lead_id == ts[t].leadId
      ts1 == [ts EXCEPT ![t].completed = TRUE]
      interaction == [Interaction(<<"sys", t, 0>>, "Unresponsive") EXCEPT
                        !.createdAt = stamp]
  IN IF lead_id = 0
     THEN [leads |-> ls, tasks |-> ts, notes |-> {}, raised |-> FALSE]
     ELSE IF ls[lead_id].state # "live"
     THEN [leads |-> ls, tasks |-> ts1, notes |-> {}, raised |-> TRUE]
     ELSE LET after == [ls[lead_id] EXCEPT
                          !.interactions = ArrayUnion(@, <<interaction>>)]
          IN [leads |-> [ls EXCEPT ![lead_id] = after], tasks |-> ts1,
              notes |-> lead_write(lead_id, ls[lead_id], after), raised |-> FALSE]

\* The loop of afcDailyAdvancer over the streamed tasks: the run ends where an
\* update raises.
RECURSIVE sweep_loop(_, _, _, _)
sweep_loop(order, ls, ts, notes) ==
  IF order = <<>> THEN [leads |-> ls, tasks |-> ts, notes |-> notes]
  ELSE LET r == sweep_task(Head(order), ls, ts, 0)
       IN IF r.raised THEN [leads |-> r.leads, tasks |-> r.tasks, notes |-> notes]
          ELSE sweep_loop(Tail(order), r.leads, r.tasks, notes \cup r.notes)

\* What one run of the sweep may leave, from the given collections.
sweep_results(ls, ts) ==
  {sweep_loop(o, ls, ts, {}) : o \in query_orders(ts, overdue_tasks(ts))}

\* A run that finds no overdue task changes nothing and is left out; max_log
\* is the number of entries a log of the run may hold.
afcDailyAdvancerUpTo(max_log) ==
  /\ overdue_tasks(tasks) # {}
  /\ \E r \in sweep_results(leads, tasks) :
       /\ \A l \in LeadIds : Len(r.leads[l].interactions) <= max_log
       /\ leads' = r.leads
       /\ tasks' = r.tasks
       /\ pending' = pending \cup r.notes
  /\ last' = Did("sweep", 0, NoNote, NoResult)
  /\ UNCHANGED <<now, race, ops, imp>>

afcDailyAdvancer == afcDailyAdvancerUpTo(MaxLog)

\* ------------------------------------------------------------- the import
\* The rows of an import, after json.loads: the keys the import reads.
Row(name, email, phone1, relationship, status, autoLogInitiated, hasEngaged) ==
  [name |-> name, email |-> email, phone1 |-> phone1, phone2 |-> Null,
   relationship |-> relationship, status |-> status,
   autoLogInitiated |-> autoLogInitiated, hasEngaged |-> hasEngaged]

\* The entry of the phones list for one phone key of a row: none when the
\* number normalizes to nothing.
phone_entry(value) ==
  IF normalize_phone(value) = <<>> THEN <<>>
  ELSE <<[number |-> normalize_phone(value), type |-> "both"]>>

\* The lead the import takes a row to be: the first document of the email
\* query, else the first of the query on the row's first phone number (0: none).
existing_docs(email, phones) ==
  LET by_email == {l \in LeadIds : Live(l) /\ email # "" /\ leads[l].email = email}
      by_phone == {l \in LeadIds :
                     /\ Live(l)
                     /\ phones # <<>>
                     /\ \E i \in DOMAIN leads[l].phones :
                          leads[l].phones[i].number = phones[1].number}
  IN IF by_email # {} THEN by_email
     ELSE IF by_phone # {} THEN by_phone
     ELSE {0}

\* The document the import builds from a row.  The id of the Initiated entry
\* is the second the clock shows, here the call and the seconds since it began;
\* createdAt is the instant, which no two rows share.
import_lead_data(row, call, seconds, stamp) ==
  LET relationship == IF row.relationship = "" THEN "Lead" ELSE row.relationship
      status == IF row.status # "" THEN row.status
                ELSE IF relationship = "Learner" THEN "Enrolled" ELSE "Active"
      seeded == relationship = "Lead" /\ row.autoLogInitiated \in DOMAIN AFC_SCHEDULE
      initiated_log == [Interaction(<<"import_init", call, seconds>>, "Initiated") EXCEPT
                          !.createdAt = stamp]
  IN [state |-> "live", email |-> row.email,
      phones |-> phone_entry(row.phone1) \o phone_entry(row.phone2),
      relationship |-> relationship, status |-> status,
      afc_step |-> IF seeded THEN row.autoLogInitiated ELSE 0,
      hasEngaged |-> row.hasEngaged,
      interactions |-> IF relationship = "Lead" /\ ~seeded THEN <<initiated_log>>
                       ELSE <<>>,
      paymentPlan |-> <<>>]

\* batch.update(existing_doc_ref, lead_data): the keys of lead_data are
\* overwritten, the payment plan, which is not among them, stays.
batch_update(doc, lead_data) == [lead_data EXCEPT !.paymentPlan = doc.paymentPlan]

\* importContactsJson on a list of one row.
importContactsJson(row, is_new_mode, is_dry_run) ==
  LET lead_data == import_lead_data(row, ops, 0, 1)
      did(id, res) == [Did("import", id, NoNote, res) EXCEPT !.phone_number = row.phone1]
  IN
  /\ Request
  /\ \E existing \in existing_docs(lead_data.email, lead_data.phones) :
       IF row.name = ""
       THEN /\ last' = Did("import", 0, NoNote, [NoResult EXCEPT !.skipped = 1])
            /\ UNCHANGED <<leads, tasks, pending>>
       ELSE IF is_dry_run
       THEN /\ last' = did(existing,
                           IF existing # 0 /\ is_new_mode
                           THEN [NoResult EXCEPT !.skipped = 1]
                           ELSE IF existing # 0
                           THEN [NoResult EXCEPT !.updated = 1, !.preview = 1]
                           ELSE [NoResult EXCEPT !.created = 1, !.preview = 1])
            /\ UNCHANGED <<leads, tasks, pending>>
       ELSE IF existing # 0 /\ is_new_mode
       THEN /\ last' = did(existing, [NoResult EXCEPT !.skipped = 1])
            /\ UNCHANGED <<leads, tasks, pending>>
       ELSE IF existing # 0
       THEN /\ leads' = [leads EXCEPT ![existing] = batch_update(@, lead_data)]
            /\ pending' = pending \cup lead_write(existing, leads[existing],
                                                  batch_update(leads[existing], lead_data))
            /\ last' = did(existing, [NoResult EXCEPT !.updated = 1])
            /\ UNCHANGED tasks
       ELSE /\ FreeLeadIds # {}
            /\ leads' = [leads EXCEPT ![new_lead_id] = lead_data]
            /\ tasks' = IF lead_data.relationship = "Lead"
                           /\ lead_data.afc_step \in DOMAIN AFC_SCHEDULE
                        THEN create_task(tasks, new_lead_id,
                                         DayFollowUp(AFC_SCHEDULE[lead_data.afc_step]),
                                         "Interactive",
                                         now + AFC_SCHEDULE[lead_data.afc_step])
                        ELSE IF lead_data.relationship = "Learner"
                        THEN create_task(tasks, new_lead_id, LearnerImportDesc,
                                         "Procedural", now)
                        ELSE tasks
            /\ Len(tasks') <= MaxTasks
            /\ pending' = pending \cup {lead_created(new_lead_id, lead_data)}
            /\ last' = did(new_lead_id, [NoResult EXCEPT !.created = 1])
  /\ UNCHANGED <<now, race, imp>>

\* ------------------------------------------- the import, one row at a time
\* The writes a row adds to the batch: none for a row that is skipped, an
\* update of the lead it matches, or a new document.
import_write_always(existing, is_new_mode, lead_data, doc_id) ==
  IF existing # 0
  THEN <<[kind |-> "update", id |-> existing, data |-> lead_data]>>
  ELSE <<[kind |-> "set", id |-> doc_id, data |-> lead_data]>>

import_write(existing, is_new_mode, lead_data, doc_id) ==
  IF existing # 0
  THEN IF is_new_mode THEN <<>>
       ELSE <<[kind |-> "update", id |-> existing, data |-> lead_data]>>
  ELSE <<[kind |-> "set", id |-> doc_id, data |-> lead_data]>>

\* Whether a dry run adds the row's document to its preview.
import_preview_any(preview_data, existing, is_new_mode) ==
  Len(preview_data) < 3

import_preview(preview_data, existing, is_new_mode) ==
  Len(preview_data) < 3 /\ ~(existing # 0 /\ is_new_mode)

\* The task the import creates with a new document.
import_tasks(ts, lead_id, lead_data) ==
  IF lead_data.relationship = "Lead" /\ lead_data.afc_step \in DOMAIN AFC_SCHEDULE
  THEN create_task(ts, lead_id, DayFollowUp(AFC_SCHEDULE[lead_data.afc_step]),
                   "Interactive", now + AFC_SCHEDULE[lead_data.afc_step])
  ELSE IF lead_data.relationship = "Learner"
  THEN create_task(ts, lead_id, LearnerImportDesc, "Procedural", now)
  ELSE ts

\* The ids leads_ref.document() has given out for documents still in the batch.
batch_ids(batch) == {batch[i].id : i \in {j \in DOMAIN batch : batch[j].kind = "set"}}

\* batch.commit(): all the writes or none.  It raises when the service fails
\* (ok = FALSE) and when an update names a document that is gone.
commit_fails(batch, ls, ok) ==
  \/ ~ok
  \/ \E i \in DOMAIN batch : batch[i].kind = "update" /\ ls[batch[i].id].state # "live"

RECURSIVE commit_writes(_, _, _)
commit_writes(batch, ls, notes) ==
  IF batch = <<>> THEN [leads |-> ls, notes |-> notes]
  ELSE LET w == Head(batch)
           data == IF w.kind = "set" THEN w.data ELSE batch_update(ls[w.id], w.data)
       IN commit_writes(Tail(batch), [ls EXCEPT ![w.id] = data],
                        notes \cup (IF w.kind = "set" THEN {lead_created(w.id, data)}
                                     ELSE lead_write(w.id, ls[w.id], data)))

\* The request arrives: counters at zero, an empty batch.
ImportStart(is_new_mode, is_dry_run) ==
  /\ Request
  /\ ~imp.on
  /\ imp' = [NoImport EXCEPT !.on = TRUE, !.is_new_mode = is_new_mode,
                             !.is_dry_run = is_dry_run, !.call = ops]
  /\ last' = Did("importStart", 0, NoNote, NoResult)
  /\ UNCHANGED <<leads, tasks, pending, now, race>>

\* One pass of the loop over the contacts, up to the commit of a full batch.
ImportRow(row, tick) ==
  LET n == imp.rows + 1
      seconds == IF tick THEN imp.seconds + 1 ELSE imp.seconds
      lead_data == import_lead_data(row, imp.call, seconds, n)
      free == FreeLeadIds \ batch_ids(imp.batch)
      doc_id == IF free = {} THEN 0 ELSE CHOOSE l \in free : \A k \in free : l <= k
  IN
  /\ imp.on
  /\ imp.rows < MaxRows
  /\ Len(imp.batch) < BATCH_LIMIT
  /\ \E existing \in existing_docs(lead_data.email, lead_data.phones) :
       LET writes == import_write(existing, imp.is_new_mode, lead_data, doc_id)
           creates == writes # <<>> /\ writes[1].kind = "set"
       IN IF row.name = ""
          THEN /\ imp' = [imp EXCEPT !.rows = n, !.seconds = seconds, !.skipped_count = @ + 1,
                                      !.skipped_data = IF imp.is_dry_run THEN Append(@, n)
                                                       ELSE @]
               /\ last' = Did("importRow", 0, NoNote, NoResult)
               /\ UNCHANGED tasks
          ELSE IF imp.is_dry_run
          THEN /\ imp' = [imp EXCEPT
                            !.rows = n, !.seconds = seconds,
                            !.skipped_count = IF existing # 0 /\ imp.is_new_mode
                                              THEN @ + 1 ELSE @,
                            !.skipped_data = IF existing # 0 /\ imp.is_new_mode
                                             THEN Append(@, n) ELSE @,
                            !.updated_count = IF existing # 0 /\ ~imp.is_new_mode
                                              THEN @ + 1 ELSE @,
                            !.created_count = IF existing = 0 THEN @ + 1 ELSE @,
                            !.preview_data =
                               IF import_preview(@, existing, imp.is_new_mode)
                               THEN Append(@, [row |-> n, data |-> lead_data])
                               ELSE @]
               /\ last' = Did("importRow", existing, NoNote, NoResult)
               /\ UNCHANGED tasks
          ELSE /\ creates => doc_id # 0
               /\ imp' = [imp EXCEPT
                            !.rows = n, !.seconds = seconds,
                            !.skipped_count = IF writes = <<>> THEN @ + 1 ELSE @,
                            !.updated_count = IF writes # <<>> /\ ~creates THEN @ + 1 ELSE @,
                            !.created_count = IF creates THEN @ + 1 ELSE @,
                            !.batch = @ \o writes]
               /\ tasks' = IF creates THEN import_tasks(tasks, doc_id, lead_data) ELSE tasks
               /\ Len(tasks') <= MaxTasks
               /\ last' = Did("importRow", existing, NoNote, NoResult)
  /\ UNCHANGED <<leads, pending, now, ops, race>>

\* What the caller gets when the import raises: an internal error, no counts.
ImportRaised == [NoResult EXCEPT !.raised = TRUE, !.code = "INTERNAL"]

\* The commit of a full batch, inside the loop.
ImportCommit(ok) ==
  /\ imp.on
  /\ Len(imp.batch) >= BATCH_LIMIT
  /\ IF commit_fails(imp.batch, leads, ok)
     THEN /\ imp' = NoImport
          /\ last' = Did("import", 0, NoNote, ImportRaised)
          /\ UNCHANGED <<leads, pending>>
     ELSE LET r == commit_writes(imp.batch, leads, {})
          IN /\ leads' = r.leads
             /\ pending' = pending \cup r.notes
             /\ imp' = [imp EXCEPT !.batch = <<>>, !.commits = @ + 1]
             /\ last' = Did("importCommit", 0, NoNote, NoResult)
  /\ UNCHANGED <<tasks, now, ops, race>>

\* The list is at its end: the commit of what is left in the batch, and the
\* counts.
ImportReturn(ok) ==
  /\ imp.on
  /\ Len(imp.batch) < BATCH_LIMIT
  /\ IF imp.batch # <<>> /\ commit_fails(imp.batch, leads, ok)
     THEN /\ last' = Did("import", 0, NoNote, ImportRaised)
          /\ UNCHANGED <<leads, pending>>
     ELSE LET r == commit_writes(imp.batch, leads, {})
          IN /\ leads' = r.leads
             /\ pending' = pending \cup r.notes
             /\ last' = Did("import", 0, NoNote,
                            [created |-> imp.created_count, updated |-> imp.updated_count,
                             skipped |-> imp.skipped_count,
                             preview |-> Len(imp.preview_data), raised |-> FALSE,
                             code |-> ""])
  /\ imp' = NoImport
  /\ UNCHANGED <<tasks, now, ops, race>>

\* ------------------------------------------------------ merge and deletion
\* mergeLeads raises before it writes: an id is missing (0), the two ids are
\* equal, or one of the two documents does not exist.
merge_rejected_unless_equal(ls, primary_lead_id, secondary_lead_id) ==
  \/ primary_lead_id = 0 \/ secondary_lead_id = 0
  \/ ls[primary_lead_id].state # "live"
  \/ ls[secondary_lead_id].state # "live"

merge_rejected(ls, primary_lead_id, secondary_lead_id) ==
  \/ primary_lead_id = 0 \/ secondary_lead_id = 0
  \/ primary_lead_id = secondary_lead_id
  \/ ls[primary_lead_id].state # "live"
  \/ ls[secondary_lead_id].state # "live"

\* The primary's interactions after the two ArrayUnion updates of the batch;
\* stamp is the server time of the commit.
merge_log_own_entries(primary_log, secondary_log, secondary_lead_id, stamp) ==
  LET merge_interaction ==
        [Interaction(<<"merge", secondary_lead_id, 0>>, "") EXCEPT
           !.notes = "Merged with contact", !.createdAt = stamp]
      own == SelectSeq(secondary_log, LAMBDA e : e.id[1] # "merge")
  IN ArrayUnion(ArrayUnion(primary_log, own), <<merge_interaction>>)

merge_log(primary_log, secondary_log, secondary_lead_id, stamp) ==
  LET merge_interaction ==
        [Interaction(<<"merge", secondary_lead_id, 0>>, "") EXCEPT
           !.notes = "Merged with contact", !.createdAt = stamp]
  IN ArrayUnion(ArrayUnion(primary_log, secondary_log), <<merge_interaction>>)

\* The tasks after the re-parenting updates of the batch.
merge_tasks_left(ts, primary_lead_id, secondary_lead_id) == ts

merge_tasks(ts, primary_lead_id, secondary_lead_id) ==
  [i \in DOMAIN ts |->
     IF ts[i].state = "live" /\ ts[i].leadId = secondary_lead_id
     THEN [ts[i] EXCEPT !.leadId = primary_lead_id]
     ELSE ts[i]]

\* The code of the error a rejected merge surfaces.  The two argument checks
\* raise outside the try block.  The check that both documents exist raises
\* NOT_FOUND inside it, where the only handler, except Exception, catches
\* every error raised in the block and raises INTERNAL in its place.
merge_except(code) == "INTERNAL"

merge_error_code(ls, primary_lead_id, secondary_lead_id) ==
  IF primary_lead_id = 0 \/ secondary_lead_id = 0 THEN "INVALID_ARGUMENT"
  ELSE IF primary_lead_id = secondary_lead_id THEN "INVALID_ARGUMENT"
  ELSE merge_except("NOT_FOUND")

\* The store after the batch of a merge that is not rejected.
merge_commit(ls, ts, primary_lead_id, secondary_lead_id, stamp) ==
  LET after == [ls[primary_lead_id] EXCEPT
                  !.interactions = merge_log(@, ls[secondary_lead_id].interactions,
                                             secondary_lead_id, stamp)]
  IN [leads |-> [ls EXCEPT ![primary_lead_id] = after,
                           ![secondary_lead_id] = DeletedLead],
      tasks |-> merge_tasks(ts, primary_lead_id, secondary_lead_id),
      notes |-> lead_write(primary_lead_id, ls[primary_lead_id], after)
                  \cup {lead_deleted(secondary_lead_id)}]

\* The two ids of a merge, as the history keeps them.
MergeOf(secondary_lead_id) == [NoNote EXCEPT !.type = "merge", !.id = secondary_lead_id]

mergeLeads(primary_lead_id, secondary_lead_id) ==
  /\ Request
  /\ IF merge_rejected(leads, primary_lead_id, secondary_lead_id)
     THEN /\ last' = Did("merge", primary_lead_id, MergeOf(secondary_lead_id),
                         [NoResult EXCEPT
                            !.raised = TRUE,
                            !.code = merge_error_code(leads, primary_lead_id,
                                                      secondary_lead_id)])
          /\ UNCHANGED <<leads, tasks, pending>>
     ELSE LET r == merge_commit(leads, tasks, primary_lead_id, secondary_lead_id, ops + 1)
          IN /\ leads' = r.leads
             /\ tasks' = r.tasks
             /\ pending' = pending \cup r.notes
             /\ last' = Did("merge", primary_lead_id, MergeOf(secondary_lead_id), NoResult)
  /\ UNCHANGED <<now, race, imp>>

\* mergeLeads as the steps it takes.  First the reads: the two documents and
\* the stream of the secondary's tasks; what was read is kept until the commit.
MergeRead(primary_lead_id, secondary_lead_id) ==
  /\ Request
  /\ race.kind = "none"
  /\ ~merge_rejected(leads, primary_lead_id, secondary_lead_id)
  /\ race' = [kind |-> "merge", lead |-> primary_lead_id, leads0 |-> leads,
              tasks0 |-> tasks, pending0 |-> {}, procs |-> <<secondary_lead_id>>]
  /\ last' = Did("mergeRead", primary_lead_id, MergeOf(secondary_lead_id), NoResult)
  /\ UNCHANGED <<leads, tasks, pending, now, imp>>

\* The tasks the stream returned: those of the secondary when it was read.
merge_tasks_read(ts0, secondary_lead_id) ==
  {t \in TaskIds(ts0) : ts0[t].leadId = secondary_lead_id}

\* The store after the batch: the entries read from the secondary and the
\* merge entry are united with the primary's log as it is now, the tasks that
\* were read are re-parented, the secondary is deleted.
merge_batch(ls, ts, primary_lead_id, secondary_lead_id, stamp, secondary_lead_data, read) ==
  LET after == [ls[primary_lead_id] EXCEPT
                  !.interactions = merge_log(@, secondary_lead_data.interactions,
                                             secondary_lead_id, stamp)]
  IN [leads |-> [ls EXCEPT ![primary_lead_id] = after,
                           ![secondary_lead_id] = DeletedLead],
      tasks |-> [i \in DOMAIN ts |->
                   IF i \in read THEN [ts[i] EXCEPT !.leadId = primary_lead_id]
                   ELSE ts[i]],
      notes |-> lead_write(primary_lead_id, ls[primary_lead_id], after)
                  \cup (IF ls[secondary_lead_id].state = "live"
                        THEN {lead_deleted(secondary_lead_id)} ELSE {})]

\* Then the commit of the batch.  An update of a document that is gone by now
\* fails the whole batch, and the caller gets the internal error.
MergeCommit ==
  /\ race.kind = "merge"
  /\ LET primary_lead_id == race.lead
         secondary_lead_id == race.procs[1]
         read == merge_tasks_read(race.tasks0, secondary_lead_id)
     IN IF ~Live(primary_lead_id) \/ \E t \in read : tasks[t].state # "live"
        THEN /\ last' = Did("merge", primary_lead_id, MergeOf(secondary_lead_id),
                            [NoResult EXCEPT !.raised = TRUE,
                                             !.code = merge_except("NOT_FOUND")])
             /\ UNCHANGED <<leads, tasks, pending>>
        ELSE LET r == merge_batch(leads, tasks, primary_lead_id, secondary_lead_id, ops,
                                  race.leads0[secondary_lead_id], read)
             IN /\ leads' = r.leads
                /\ tasks' = r.tasks
                /\ pending' = pending \cup r.notes
                /\ last' = Did("merge", primary_lead_id, MergeOf(secondary_lead_id),
                               NoResult)
  /\ race' = NoRace
  /\ UNCHANGED <<now, ops, imp>>

\* bulkDeleteLeads on a list of one id.
bulkDeleteLeads(lead_id) ==
  /\ Request
  /\ Live(lead_id)
  /\ leads' = [leads EXCEPT ![lead_id] = DeletedLead]
  /\ pending' = pending \cup {lead_deleted(lead_id)}
  /\ last' = Did("bulkDelete", lead_id, NoNote, NoResult)
  /\ UNCHANGED <<tasks, now, race, imp>>

\* ------------------------------------------- instances that run side by side
Idle == race.kind = "none"

\* The scheduler starts two instances of afcDailyAdvancer at once: both run
\* the query before either has written.
SweepTogether ==
  /\ Idle
  /\ overdue_tasks(tasks) # {}
  /\ \E o1, o2 \in query_orders(tasks, overdue_tasks(tasks)) :
       race' = [kind |-> "sweep", lead |-> 0, leads0 |-> leads, tasks0 |-> tasks,
                pending0 |-> pending, procs |-> <<o1, o2>>]
  /\ last' = Did("sweepTogether", 0, NoNote, NoResult)
  /\ UNCHANGED <<leads, tasks, pending, now, ops, imp>>

\* Instance k of the sweep handles the next task of its stream.  Its write of
\* the lead carries its own server time.
SweepStep(k) ==
  /\ race.kind = "sweep"
  /\ race.procs[k] # <<>>
  /\ LET r == sweep_task(Head(race.procs[k]), leads, tasks, k)
     IN /\ \A l \in LeadIds : Len(r.leads[l].interactions) <= MaxLog
        /\ leads' = r.leads
        /\ tasks' = r.tasks
        /\ pending' = pending \cup r.notes
        /\ race' = [race EXCEPT !.procs[k] = IF r.raised THEN <<>> ELSE Tail(@)]
  /\ last' = Did("sweepStep", k, NoNote, NoResult)
  /\ UNCHANGED <<now, ops, imp>>

\* Two updates of one lead, nA the earlier, are delivered to two instances of
\* logProcessor.
DispatchTogether(nA, nB) ==
  /\ Idle
  /\ nA \in pending /\ nB \in pending
  /\ Len(nA.doc.interactions) < Len(nB.doc.interactions)
  /\ nA.type = "leadUpdated" /\ nB.type = "leadUpdated"
  /\ nA.id = nB.id
  /\ Live(nA.id)
  /\ race' = [kind |-> "dispatch", lead |-> nA.id, leads0 |-> leads, tasks0 |-> tasks,
              pending0 |-> {},
              procs |-> <<[n |-> nA, pc |-> "begin"], [n |-> nB, pc |-> "begin"]>>]
  /\ pending' = pending \ {nA, nB}
  /\ last' = Did("dispatchTogether", nA.id, NoNote, NoResult)
  /\ UNCHANGED <<leads, tasks, now, ops, imp>>

\* Instance k of logProcessor takes its next step.
DispatchStep(k) ==
  /\ race.kind = "dispatch"
  /\ race.procs[k].pc # "done"
  /\ LET lead_id == race.lead
         n == race.procs[k].n
         interaction_data == n.doc.interactions[Len(n.doc.interactions)]
         r == IF race.procs[k].pc = "begin"
              THEN dispatch_begin(lead_id, leads[lead_id], tasks, n.doc, interaction_data)
              ELSE dispatch_end(lead_id, leads[lead_id], tasks, n.doc, interaction_data)
     IN /\ Len(r.tasks) <= MaxTasks
        /\ leads' = [leads EXCEPT ![lead_id] = r.lead]
        /\ tasks' = r.tasks
        /\ race' = [race EXCEPT !.procs[k].pc = IF @ = "begin" THEN "end" ELSE "done"]
        /\ last' = Did("dispatchStep", lead_id, n, NoResult)
  /\ UNCHANGED <<pending, now, ops, imp>>

\* Every instance has returned.
SweepsDone == race.kind = "sweep" /\ \A k \in DOMAIN race.procs : race.procs[k] = <<>>

DispatchersDone ==
  race.kind = "dispatch" /\ \A k \in DOMAIN race.procs : race.procs[k].pc = "done"

RaceOver ==
  /\ SweepsDone \/ DispatchersDone
  /\ race' = NoRace
  /\ last' = Did("raceOver", 0, NoNote, NoResult)
  /\ UNCHANGED <<leads, tasks, pending, now, ops, imp>>

\* At-least-once delivery: the update logProcessor has just handled is
\* delivered to it a second time.
Redeliver ==
  /\ Idle
  /\ last.op = "logProcessor"
  /\ LET lead_id == last.id
         data_after == last.n.doc
         interaction_data == data_after.interactions[Len(data_after.interactions)]
     IN IF ~Live(lead_id)
        THEN UNCHANGED <<leads, tasks>>
        ELSE LET r == dispatch(lead_id, leads[lead_id], tasks, data_after, interaction_data)
             IN /\ leads' = [leads EXCEPT ![lead_id] = r.lead]
                /\ tasks' = r.tasks
  /\ Len(tasks') <= MaxTasks
  /\ last' = Did("redelivery", last.id, last.n, NoResult)
  /\ UNCHANGED <<pending, now, ops, race, imp>>

\* ---------------------------------------------------------- specification
\* The id the client gives the next interaction of lead l.
LogId(l) == <<"log", l, Len(leads[l].interactions) + 1>>

\* Inputs: a plain lead, a learner, an engaged lead at the Day 3 stage, a row
\* known by its phone, a row with no name.
Rows ==
  {Row("N", "a", Null, "Lead", "", 0, FALSE),
   Row("N", "a", Null, "Learner", "", 0, FALSE),
   Row("N", "a", Null, "Lead", "", 2, TRUE),
   Row("N", "", Text(<<"1">>), "Lead", "", 0, FALSE),
   Row("", "a", Null, "Lead", "", 0, FALSE)}

Logs(l) ==
  LET base == Interaction(LogId(l), "")
  IN {[base EXCEPT !.quickLogType = "Followup"],
      [base EXCEPT !.quickLogType = "Enrolled"],
      [base EXCEPT !.outcome = "Later", !.followUpDate = now + 1],
      [base EXCEPT !.outcome = "Event Scheduled", !.eventType = "Demo",
                   !.dateTime = now + 3]}

Next ==
  \/ Tick
  \/ CreateLeadManual
  \/ \E l \in LeadIds : \E i \in Logs(l) : ClientLog(l, i)
  \/ \E t \in DOMAIN tasks : ClientCompleteTask(t)
  \/ \E n \in pending : onLeadCreate(n)
  \/ \E n \in pending : logProcessor(n)
  \/ \E n \in pending : onTaskUpdate(n)
  \/ \E n \in pending : onLeadDelete(n)
  \/ afcDailyAdvancer
  \/ \E row \in Rows, is_new_mode \in BOOLEAN, is_dry_run \in BOOLEAN :
       importContactsJson(row, is_new_mode, is_dry_run)
  \/ \E p \in LeadIds, s \in LeadIds : ~merge_rejected(leads, p, s) /\ mergeLeads(p, s)
  \/ \E l \in LeadIds : bulkDeleteLeads(l)

Spec == Init /\ [][Next]_vars

\* The same operations, one at a time: the client, the clock and the sweep
\* wait until every handler triggered so far has run.
NextSeq ==
  \/ pending = {} /\ Tick
  \/ pending = {} /\ CreateLeadManual
  \/ \E l \in LeadIds : \E i \in Logs(l) : pending = {} /\ ClientLog(l, i)
  \/ \E t \in DOMAIN tasks : pending = {} /\ ClientCompleteTask(t)
  \/ \E n \in pending : onLeadCreate(n)
  \/ \E n \in pending : logProcessor(n)
  \/ \E n \in pending : onTaskUpdate(n)
  \/ \E n \in pending : onLeadDelete(n)
  \/ pending = {} /\ afcDailyAdvancer
  \/ \E row \in Rows, is_new_mode \in BOOLEAN, is_dry_run \in BOOLEAN :
       pending = {} /\ importContactsJson(row, is_new_mode, is_dry_run)
  \/ \E p \in LeadIds, s \in LeadIds :
       pending = {} /\ ~merge_rejected(leads, p, s) /\ mergeLeads(p, s)
  \/ \E l \in LeadIds : pending = {} /\ bulkDeleteLeads(l)

SpecSeq == Init /\ [][NextSeq]_vars

\* Inputs for the follow-up cycle: leads imported at every stage, engaged or
\* not, and the Unresponsive quick log.
AfcRows ==
  {Row("N", "a", Null, "Lead", "", a, h) : a \in 0..5, h \in BOOLEAN}
  \cup {Row("N", "a", Null, "Learner", "", 0, FALSE)}

AfcLogs(l) == {Interaction(LogId(l), "Unresponsive")}

NextAfc ==
  \/ Tick
  \/ CreateLeadManual
  \/ \E l \in LeadIds : \E i \in AfcLogs(l) : ClientLog(l, i)
  \/ \E t \in DOMAIN tasks : ClientCompleteTask(t)
  \/ \E n \in pending : onLeadCreate(n)
  \/ \E n \in pending : logProcessor(n)
  \/ \E n \in pending : onTaskUpdate(n)
  \/ \E n \in pending : onLeadDelete(n)
  \/ afcDailyAdvancer
  \/ \E row \in AfcRows, is_new_mode \in BOOLEAN, is_dry_run \in BOOLEAN :
       importContactsJson(row, is_new_mode, is_dry_run)
  \/ \E p \in LeadIds, s \in LeadIds : ~merge_rejected(leads, p, s) /\ mergeLeads(p, s)
  \/ \E l \in LeadIds : bulkDeleteLeads(l)

SpecAfc == Init /\ [][NextAfc]_vars

\* Inputs for handlers that run side by side or twice: the creation of leads
\* by hand, the quick logs and a snooze, and the schedulers that start two
\* instances at once.  While instances run side by side nothing else does,
\* but for the dispatch of what the sweeps log.
RaceLogs(l) ==
  LET base == Interaction(LogId(l), "")
  IN {[base EXCEPT !.quickLogType = "Unresponsive"],
      [base EXCEPT !.quickLogType = "Followup"],
      [base EXCEPT !.quickLogType = "Enrolled"],
      [base EXCEPT !.outcome = "Later", !.followUpDate = now + 1]}

NextRace ==
  \/ Idle /\ Tick
  \/ Idle /\ CreateLeadManual
  \/ \E l \in LeadIds : \E i \in RaceLogs(l) : Idle /\ ClientLog(l, i)
  \/ \E n \in pending : Idle /\ onLeadCreate(n)
  \/ \E n \in pending : race.kind # "dispatch" /\ logProcessor(n)
  \/ Idle /\ afcDailyAdvancer
  \/ SweepTogether
  \/ \E k \in {1, 2} : SweepStep(k)
  \/ \E nA \in pending, nB \in pending : DispatchTogether(nA, nB)
  \/ \E k \in {1, 2} : DispatchStep(k)
  \/ RaceOver
  \/ Redeliver

SpecRace == Init /\ [][NextRace]_vars

\* Imports, row by row, while the client deletes leads.  Inputs: two leads at
\* the Day 1 stage, a learner, a row with no name.
ImportRows ==
  {Row("N", "a", Null, "Lead", "", 1, FALSE),
   Row("N", "b", Null, "Lead", "", 1, FALSE),
   Row("N", "c", Null, "Learner", "", 0, FALSE),
   Row("", "a", Null, "Lead", "", 0, FALSE)}

NextImport ==
  \/ \E is_new_mode \in BOOLEAN, is_dry_run \in BOOLEAN : ImportStart(is_new_mode, is_dry_run)
  \/ \E row \in ImportRows : ImportRow(row, FALSE)
  \/ \E ok \in BOOLEAN : ImportCommit(ok)
  \/ \E ok \in BOOLEAN : ImportReturn(ok)
  \/ \E l \in LeadIds : bulkDeleteLeads(l)

SpecImport == Init /\ [][NextImport]_vars

\* Merges of imported leads; each handler has run before the next step of
\* the client or of the import.  Inputs: a lead known by name only; the ids of
\* a merge may be missing (0), equal, or name no lead.
MergeRows == {Row("N", "", Null, "Lead", "", 0, FALSE)}

\* The payment plan: one lead, whose plan the client saves again and again,
\* each save handled before the next.
PlanAmounts == {100, 200}
PlanDueDates == {NoDate, 3, 5}

Installments(id) ==
  {Installment(id, amount, status, dueDate) :
     amount \in PlanAmounts, status \in {"Unpaid", "Paid"}, dueDate \in PlanDueDates}

Plans ==
  {<<>>} \cup {<<i>> : i \in Installments(1) \cup Installments(2)}
         \cup {<<i, j>> : i \in Installments(1), j \in Installments(2)}

NextPlan ==
  \/ pending = {} /\ CreateLeadManual
  \/ \E l \in LeadIds : \E plan \in Plans : pending = {} /\ ClientSetPlan(l, plan)
  \/ \E n \in pending : onLeadCreate(n)
  \/ \E n \in pending : logProcessor(n)

SpecPlan == Init /\ [][NextPlan]_vars

\* Phone numbers: rows that differ in Phone1 only, imported one by one.
PhoneChars == {"1", "U+0663", "+", " "}
PhoneInts == {0, 7, 42, 0 - 5}

PhoneInputs ==
  {Null} \cup {Text(s) : s \in UNION {[1..n -> PhoneChars] : n \in 0..MaxPhoneLen}}
         \cup {Number(v) : v \in PhoneInts}

PhoneRows == {Row("N", "", x, "Lead", "", 1, FALSE) : x \in PhoneInputs}

NextPhone ==
  \/ \E row \in PhoneRows, is_new_mode \in BOOLEAN :
       importContactsJson(row, is_new_mode, FALSE)
  \/ \E n \in pending : onLeadCreate(n)

SpecPhone == Init /\ [][NextPhone]_vars

\* Matching: rows with or without an email and with none, one or two phone
\* numbers, imported one by one as new rows or as updates.
MatchPhones == {Null, Text(<<"1">>), Text(<<"2">>)}

MatchRows ==
  {[Row("N", email, phone1, "Lead", "", 1, FALSE) EXCEPT !.phone2 = phone2] :
     email \in {"", "a"}, phone1 \in MatchPhones, phone2 \in MatchPhones}

NextMatch ==
  \/ \E row \in MatchRows, is_new_mode \in BOOLEAN :
       pending = {} /\ importContactsJson(row, is_new_mode, FALSE)
  \/ \E n \in pending : onLeadCreate(n)

SpecMatch == Init /\ [][NextMatch]_vars

\* The dispatcher: every kind of interaction the client can log, on a lead
\* added by hand, each write handled before the next.
EventLogs(l) ==
  {[Interaction(LogId(l), "") EXCEPT
      !.outcome = "Event Scheduled", !.eventType = e, !.dateTime = now + d,
      !.zone = z, !.rescheduledFrom = r] :
     e \in {"Demo", "Trial"}, d \in {1, 3}, z \in BOOLEAN, r \in BOOLEAN}

DispatchLogs(l) ==
  LET base == Interaction(LogId(l), "")
  IN {[base EXCEPT !.quickLogType = q] :
        q \in {"", "Followup", "Unchanged", "Enrolled", "Withdrawn", "Invalid"}}
     \cup {[base EXCEPT !.feedback = TRUE],
           [base EXCEPT !.outcome = "Info"],
           [base EXCEPT !.outcome = "Later"],
           [base EXCEPT !.outcome = "Later", !.followUpDate = now + 2]}
     \cup EventLogs(l)

NextLog ==
  \/ pending = {} /\ Tick
  \/ pending = {} /\ CreateLeadManual
  \/ \E l \in LeadIds : \E i \in DispatchLogs(l) : pending = {} /\ ClientLog(l, i)
  \/ \E t \in DOMAIN tasks : pending = {} /\ ClientCompleteTask(t)
  \/ \E n \in pending : onLeadCreate(n)
  \/ \E n \in pending : logProcessor(n)
  \/ \E n \in pending : onTaskUpdate(n)

SpecLog == Init /\ [][NextLog]_vars

InitMerge ==
  /\ leads = [l \in 1..MaxMergeLeads |-> NoLead]
  /\ tasks = <<>>
  /\ pending = {}
  /\ now = 0
  /\ ops = 0
  /\ last = Did("init", 0, NoNote, NoResult)
  /\ race = NoRace
  /\ imp = NoImport

NextMerge ==
  \/ pending = {} /\ ImportStart(TRUE, FALSE)
  \/ \E row \in MergeRows, tick \in BOOLEAN : pending = {} /\ ImportRow(row, tick)
  \/ pending = {} /\ ImportCommit(TRUE)
  \/ pending = {} /\ ImportReturn(TRUE)
  \/ \E n \in pending : onLeadCreate(n)
  \/ \E n \in pending : logProcessor(n)
  \/ \E n \in pending : onLeadDelete(n)
  \/ \E p \in LeadIds \cup {0}, s \in LeadIds \cup {0} : pending = {} /\ mergeLeads(p, s)

SpecMerge == InitMerge /\ [][NextMerge]_vars

\* The follow-up loop left to itself: leads are added by hand or imported at
\* any stage, engaged or not, on day 0, and from then on only the clock, the
\* sweep and the handlers act.  A lead gets at most four tasks, a task moves
\* the clock by at most its offset and a day, and a log holds at most the
\* Initiated entry and four of the sweep.
LoopMaxTasks == 4 * MaxLeads
LoopMaxNow == 36 * MaxLeads
LoopMaxLog == 5

LoopRows == {Row("N", "", Null, "Lead", "", a, h) : a \in 0..5, h \in BOOLEAN}

NextLoop ==
  \/ TickUpTo(LoopMaxNow)
  \/ now = 0 /\ pending = {} /\ CreateLeadManual
  \/ \E row \in LoopRows : now = 0 /\ pending = {} /\ importContactsJson(row, TRUE, FALSE)
  \/ \E n \in pending : onLeadCreateUpTo(n, LoopMaxTasks)
  \/ \E n \in pending : logProcessorUpTo(n, LoopMaxTasks)
  \/ afcDailyAdvancerUpTo(LoopMaxLog)

\* The clock advances, the scheduler starts the sweep twice a day, and every
\* write of a lead is delivered to its handler.
LoopFair ==
  /\ WF_vars(TickUpTo(LoopMaxNow))
  /\ WF_vars(afcDailyAdvancerUpTo(LoopMaxLog))
  /\ WF_vars(\E n \in pending : onLeadCreateUpTo(n, LoopMaxTasks))
  /\ WF_vars(\E n \in pending : logProcessorUpTo(n, LoopMaxTasks))

SpecLoop == Init /\ [][NextLoop]_vars /\ LoopFair

\* A merge beside the sweep and the dispatcher: leads added by hand, the
\* clock, and a merge whose reads and commit the handlers may come between.
NextMergeRace ==
  \/ pending = {} /\ race.kind = "none" /\ Tick
  \/ pending = {} /\ race.kind = "none" /\ CreateLeadManual
  \/ \E n \in pending : onLeadCreate(n)
  \/ \E n \in pending : logProcessor(n)
  \/ \E n \in pending : onLeadDelete(n)
  \/ afcDailyAdvancer
  \/ \E p \in LeadIds, s \in LeadIds : pending = {} /\ MergeRead(p, s)
  \/ MergeCommit

SpecMergeRace == Init /\ [][NextMergeRace]_vars


\* ------------------------------------------------------------------ claims
\* Every handler the writes so far trigger has run.
Quiescent == pending = {}

OpenTasks(l) == {t \in TaskIds(tasks) : tasks[t].leadId = l /\ ~tasks[t].completed}

\* The open Interactive tasks of lead l that carry the follow-up naming.
OpenFollowUps(l) ==
  {t \in OpenTasks(l) : tasks[t].nature = "Interactive" /\ HasFollowUp(tasks[t].description)}

\* C1: once the triggered handlers have run, for every lead afc_step > 0 iff
\* exactly one open Interactive follow-up task exists for that lead.
C1_StepIffOneOpenFollowUp ==
  Quiescent =>
    \A l \in LeadIds :
      Live(l) => (leads[l].afc_step > 0 <=> Cardinality(OpenFollowUps(l)) = 1)


Closed == {"Enrolled", "Withdrawn", "Invalid"}

\* C2: a lead with afc_step > 0 has status Active.  Stated for the states in
\* which every triggered handler has run, so that a lead whose create handler
\* has not yet given it a status is not counted against the claim.
C2_StepImpliesActive ==
  Quiescent =>
    \A l \in LeadIds :
      (Live(l) /\ leads[l].afc_step > 0) => leads[l].status = "Active"

\* C3: Enrolled, Withdrawn and Invalid are terminal: no step of the dispatcher
\* takes a lead whose status is one of them to Cooling or Dormant.  Stated for
\* the steps in which the dispatcher itself read the closed status in the
\* snapshot it was given, so that no stale snapshot is involved.
C3_ClosedIsTerminal ==
  [][\A l \in LeadIds :
       (/\ Live(l)
        /\ leads[l].status \in Closed
        /\ last'.op = "logProcessor"
        /\ last'.id = l
        /\ last'.n.doc.status \in Closed)
       => leads'[l].status \notin {"Cooling", "Dormant"}]_vars

\* C4: hasEngaged is monotonic: no step sets a lead's hasEngaged back to false.
C4_HasEngagedMonotonic ==
  [][\A l \in LeadIds :
       (Live(l) /\ leads[l].hasEngaged /\ leads'[l].state = "live")
       => leads'[l].hasEngaged]_vars

\* a occurs in b, in the same relative order
RECURSIVE IsSubseq(_, _)
IsSubseq(a, b) ==
  IF a = <<>> THEN TRUE
  ELSE IF b = <<>> THEN FALSE
  ELSE IF Head(a) = Head(b) THEN IsSubseq(Tail(a), Tail(b))
  ELSE IsSubseq(a, Tail(b))

\* C5: the log is append-only: across every step that does not retire the
\* lead, every interaction of its log is still there, unchanged and in the
\* same relative order.
C5_LogAppendOnly ==
  [][\A l \in LeadIds :
       (Live(l) /\ leads'[l].state = "live")
       => IsSubseq(leads[l].interactions, leads'[l].interactions)]_vars

\* The open Interactive tasks of lead l in the collection ts.
OpenInteractive(l, ts) ==
  {t \in TaskIds(ts) : ts[t].leadId = l /\ ~ts[t].completed /\ ts[t].nature = "Interactive"}

\* The step is the create handler's, for the live lead l, written with no
\* status and no stage.
CreatedManually(l) ==
  /\ last'.op = "onLeadCreate"
  /\ last'.id = l
  /\ last'.n.doc.status = ""
  /\ last'.n.doc.afc_step = 0
  /\ Live(l)

\* C6: when a lead is created with no status, the create handler leaves it
\* with afc_step = 1 and status Active and adds exactly one task: an open
\* Interactive "Day 1 Follow-up" due one day after now, which is the lead's
\* only open Interactive task when it had none before.
C6_ManualCreateStartsCycle ==
  [][\A l \in LeadIds :
       CreatedManually(l) =>
         /\ leads'[l].afc_step = 1
         /\ leads'[l].status = "Active"
         /\ tasks' = Append(tasks, [state |-> "live", leadId |-> l,
                                    description |-> "Day 1 Follow-up",
                                    nature |-> "Interactive", completed |-> FALSE,
                                    dueDate |-> now + 1])
         /\ (OpenInteractive(l, tasks) = {}
               => Cardinality(OpenInteractive(l, tasks')) = 1)]_vars

C6_Witness ==
  /\ last.op = "onLeadCreate"
  /\ last.n.doc.status = ""
  /\ leads[last.id].afc_step = 1
  /\ leads[last.id].status = "Active"
  /\ \E t \in TaskIds(tasks) :
       /\ OpenInteractive(last.id, tasks) = {t}
       /\ tasks[t].description = "Day 1 Follow-up"
       /\ tasks[t].dueDate = now + 1

\* The newest interaction of a lead document.
LastLog(doc) == doc.interactions[Len(doc.interactions)]

\* The notification n carries an Unresponsive quick log.
IsUnresponsive(n) ==
  /\ LastLog(n.doc).quickLogType = "Unresponsive"
  /\ ~LastLog(n.doc).feedback
  /\ LastLog(n.doc).outcome = ""

\* The step is the dispatch of an Unresponsive interaction for the live lead l,
\* whose stage and engagement are those of the snapshot the dispatcher was
\* given (no other write has come in between).
UnresponsiveDispatched(l) ==
  /\ last'.op = "logProcessor"
  /\ last'.id = l
  /\ Live(l)
  /\ IsUnresponsive(last'.n)
  /\ last'.n.doc.afc_step = leads[l].afc_step
  /\ last'.n.doc.hasEngaged = leads[l].hasEngaged

\* The days to wait at each step, counted from now.
Offset == <<1, 3, 5, 7, 15>>

\* C7: for a lead at afc_step = s, s in {0,1,3,4} or s = 2 and not engaged,
\* dispatching an Unresponsive interaction sets afc_step to s + 1, leaves the
\* status as it was and creates exactly one task: an open Interactive
\* follow-up due now + Offset[s + 1].
C7_UnresponsiveAdvances ==
  [][\A l \in LeadIds : \A s \in 0..4 :
       (/\ UnresponsiveDispatched(l)
        /\ leads[l].afc_step = s
        /\ (s = 2 => ~leads[l].hasEngaged))
       => /\ leads'[l].afc_step = s + 1
          /\ leads'[l].status = leads[l].status
          /\ Len(tasks') = Len(tasks) + 1
          /\ \A t \in DOMAIN tasks : tasks'[t] \in {tasks[t], [tasks[t] EXCEPT !.completed = TRUE]}
          /\ LET new == tasks'[Len(tasks')]
             IN /\ new.state = "live"
                /\ new.leadId = l
                /\ new.nature = "Interactive"
                /\ HasFollowUp(new.description)
                /\ ~new.completed
                /\ new.dueDate = now + Offset[s + 1]]_vars

C7_Witness ==
  /\ last.op = "logProcessor"
  /\ IsUnresponsive(last.n)
  /\ last.n.doc.afc_step = 4
  /\ leads[last.id].afc_step = 5
  /\ \E t \in OpenInteractive(last.id, tasks) :
       tasks[t].description = "Day 15 Follow-up" /\ tasks[t].dueDate = now + 15

\* C8: for a lead at afc_step = 5, dispatching an Unresponsive interaction
\* sets afc_step to 0 and the status to Cooling when the lead had engaged and
\* to Dormant when it had not, and creates no task.
C8_UnresponsiveExhausted ==
  [][\A l \in LeadIds :
       (UnresponsiveDispatched(l) /\ leads[l].afc_step = 5)
       => /\ leads'[l].afc_step = 0
          /\ leads'[l].status = IF leads[l].hasEngaged THEN "Cooling" ELSE "Dormant"
          /\ Len(tasks') = Len(tasks)
          /\ TaskIds(tasks') = TaskIds(tasks)]_vars

C8_Witness ==
  /\ last.op = "logProcessor"
  /\ IsUnresponsive(last.n)
  /\ last.n.doc.afc_step = 5
  /\ last.n.doc.hasEngaged
  /\ leads[last.id].afc_step = 0
  /\ leads[last.id].status = "Cooling"

\* C9: for an engaged lead at afc_step = 2, dispatching an Unresponsive
\* interaction sets the status to Cooling and afc_step to 0 and creates no
\* task; the step is the handler's only write of afc_step, so the lead is never
\* at afc_step = 3.
C9_EngagedCoolsAtDayThree ==
  [][\A l \in LeadIds :
       (UnresponsiveDispatched(l) /\ leads[l].afc_step = 2 /\ leads[l].hasEngaged)
       => /\ leads'[l].status = "Cooling"
          /\ leads'[l].afc_step = 0
          /\ leads'[l].afc_step # 3
          /\ Len(tasks') = Len(tasks)
          /\ OpenFollowUps(l)' = {}]_vars

C9_Witness ==
  /\ last.op = "logProcessor"
  /\ IsUnresponsive(last.n)
  /\ last.n.doc.afc_step = 2
  /\ last.n.doc.hasEngaged
  /\ leads[last.id].afc_step = 0
  /\ leads[last.id].status = "Cooling"
  /\ OpenFollowUps(last.id) = {}

\* C10: the sweep is idempotent: in the state a run of the sweep leaves, a
\* second run (same now, nothing in between) changes no task and no lead.
\* Stated for the runs during which no creation or deletion of a lead is still
\* waiting for its handler.
C10_SweepIdempotent ==
  (last.op = "sweep" /\ \A n \in pending : n.type = "leadUpdated") =>
    \A r \in sweep_results(leads, tasks) : r.leads = leads /\ r.tasks = tasks

\* The fields of a lead the follow-up cycle decides, and how many
\* interactions its log holds.
Cycle(doc) == <<doc.afc_step, doc.status, doc.hasEngaged>>

\* The tasks of lead l in ts, each kind with the number of its tasks.
TaskBag(l, ts, S) ==
  LET key(t) == <<ts[t].description, ts[t].nature, ts[t].completed, ts[t].dueDate>>
  IN {<<key(t), Cardinality({u \in S : key(u) = key(t)})>> : t \in S}

AllTasks(l, ts) == {t \in TaskIds(ts) : ts[t].leadId = l}

\* What one run of the sweep, and the dispatch of what it logs, leaves of
\* lead l when task t is the one overdue task.
single_sweep(l, t, ls, ts) ==
  LET r == sweep_task(t, ls, ts, 0)
  IN dispatch(l, r.leads[l], r.tasks, r.leads[l], LastLog(r.leads[l]))

\* C11: two instances of the sweep over the same overdue Interactive task are
\* a benign race: once both have returned and what they logged is dispatched,
\* the lead's cycle fields, its log's length and its tasks are those a single
\* run leaves.  Stated for the races that start with one overdue task, of a
\* lead that exists, and no handler waiting.
C11_ConcurrentSweepsBenign ==
  (/\ SweepsDone
   /\ pending = {}
   /\ race.pending0 = {}
   /\ Cardinality(overdue_tasks(race.tasks0)) = 1)
  => \A t \in overdue_tasks(race.tasks0) :
       LET l == race.tasks0[t].leadId
           one == single_sweep(l, t, race.leads0, race.tasks0)
       IN race.leads0[l].state = "live" =>
            /\ Cycle(leads[l]) = Cycle(one.lead)
            /\ Len(leads[l].interactions) = Len(one.lead.interactions)
            /\ TaskBag(l, tasks, AllTasks(l, tasks))
                 = TaskBag(l, one.tasks, AllTasks(l, one.tasks))

OpenIn(l, ts) == {t \in TaskIds(ts) : ts[t].leadId = l /\ ~ts[t].completed}

\* logProcessor run to its end on update n1 and then on update n2, each with
\* the snapshot it was delivered.
one_after_other(l, ls, ts, n1, n2) ==
  LET r1 == dispatch(l, ls[l], ts, n1.doc, LastLog(n1.doc))
  IN dispatch(l, r1.lead, r1.tasks, n2.doc, LastLog(n2.doc))

\* C12: dispatch is serializable per lead: when two instances of the
\* dispatcher have handled two interactions of one lead side by side, the
\* lead's afc_step, status, hasEngaged and open tasks are those of handling
\* the two one after the other, in one of the two orders.
C12_DispatchSerializable ==
  DispatchersDone =>
    LET l == race.lead
        nA == race.procs[1].n
        nB == race.procs[2].n
        serial == {one_after_other(l, race.leads0, race.tasks0, nA, nB),
                   one_after_other(l, race.leads0, race.tasks0, nB, nA)}
    IN \E s \in serial :
         /\ Cycle(leads[l]) = Cycle(s.lead)
         /\ TaskBag(l, tasks, OpenIn(l, tasks)) = TaskBag(l, s.tasks, OpenIn(l, s.tasks))

\* The open tasks of lead l counted by description and nature.
OpenByKind(l, ts) ==
  LET keys == {<<ts[t].description, ts[t].nature>> : t \in OpenIn(l, ts)}
  IN {<<k, Cardinality({t \in OpenIn(l, ts) : <<ts[t].description, ts[t].nature>> = k})>> :
        k \in keys}

\* C13: a lead update delivered to the dispatcher a second time, with the
\* same snapshots, leaves the lead's fields and its open tasks (counted by
\* description and nature) as the first delivery left them.
C13_DuplicateDeliveryTolerated ==
  [][(last'.op = "redelivery" /\ leads[last'.id].state = "live") =>
        /\ leads'[last'.id] = leads[last'.id]
        /\ OpenByKind(last'.id, tasks') = OpenByKind(last'.id, tasks)]_vars

\* A step of the import in progress.
ImportStepped == imp.on /\ last'.op \in {"importRow", "importCommit", "import"}

\* The import has just read a row that matches the lead last'.id.
MatchedRow ==
  /\ imp.on /\ ~imp.is_dry_run /\ imp'.rows = imp.rows + 1
  /\ last'.op = "importRow" /\ last'.id # 0

\* C14: a row that matches an existing lead: with insertOnly nothing is
\* written and only the skipped count grows, by one; with upsert the one write
\* added is an update of the matched lead and only the updated count grows, by
\* one.  No step of an import creates a lead for such a row, and the only
\* existing leads an import changes are those its matched rows named, none
\* with insertOnly.
C14_MatchedRowSkippedOrUpdated ==
  [][/\ MatchedRow =>
          /\ leads' = leads /\ tasks' = tasks
          /\ imp'.created_count = imp.created_count
          /\ IF imp.is_new_mode
             THEN /\ imp'.batch = imp.batch
                  /\ imp'.skipped_count = imp.skipped_count + 1
                  /\ imp'.updated_count = imp.updated_count
             ELSE /\ Len(imp'.batch) = Len(imp.batch) + 1
                  /\ SubSeq(imp'.batch, 1, Len(imp.batch)) = imp.batch
                  /\ imp'.batch[Len(imp'.batch)].kind = "update"
                  /\ imp'.batch[Len(imp'.batch)].id = last'.id
                  /\ imp'.updated_count = imp.updated_count + 1
                  /\ imp'.skipped_count = imp.skipped_count
     /\ ImportStepped =>
          \A l \in LeadIds :
            (Live(l) /\ leads'[l] # leads[l]) =>
               /\ ~imp.is_new_mode
               /\ \E i \in DOMAIN imp.batch :
                    imp.batch[i] = [kind |-> "update", id |-> l, data |-> leads'[l]]]_vars

\* An upsert has read a row that matches a lead, and has its update in the batch.
C14_Witness ==
  /\ imp.on /\ ~imp.is_dry_run /\ ~imp.is_new_mode
  /\ last.op = "importRow" /\ last.id # 0
  /\ imp.updated_count = 1 /\ imp.batch # <<>>

\* C15: a dry run writes nothing: no step of it changes a lead or a task or
\* sends a notification; its preview holds at most 3 documents, none of them
\* of a row it lists as skipped.
C15_DryRunWritesNothing ==
  /\ []((imp.on /\ imp.is_dry_run) =>
          /\ Len(imp.preview_data) <= 3
          /\ \A i \in DOMAIN imp.preview_data : \A j \in DOMAIN imp.skipped_data :
               imp.preview_data[i].row # imp.skipped_data[j])
  /\ [][(ImportStepped /\ imp.is_dry_run) =>
          /\ leads' = leads /\ tasks' = tasks /\ pending' = pending
          /\ imp'.batch = <<>>]_vars

\* A dry run has read more rows to create or update than its preview holds,
\* and rows it skips.
C15_Witness ==
  /\ imp.on /\ imp.is_dry_run
  /\ Len(imp.preview_data) = 3
  /\ imp.created_count + imp.updated_count > 3
  /\ imp.skipped_data # <<>>

\* The import in progress ends at a commit that did not go through.
CommitFailed ==
  /\ imp.on /\ ~imp'.on /\ last'.op = "import"
  /\ imp.batch # <<>>
  /\ leads' # commit_writes(imp.batch, leads, {}).leads

\* C16: when a commit of an import fails after an earlier batch went through,
\* the leads of the earlier batches stay as committed and the caller gets
\* counts of the work done up to the failure.
C16_PartialCountsReturned ==
  [][(CommitFailed /\ imp.commits > 0) =>
        /\ leads' = leads
        /\ ~last'.res.raised
        /\ last'.res.created + last'.res.updated > 0]_vars

\* C17: a merge is rejected when an id is missing, when the two ids are
\* equal, or when one of them names no lead; a rejected merge leaves every
\* lead, with its interactions, and every task as it was.
C17_RejectedMergeChangesNothing ==
  [][last'.op = "merge" =>
       LET p == last'.id
           s == last'.n.id
       IN (p = 0 \/ s = 0 \/ p = s \/ ~Live(p) \/ ~Live(s)) =>
            /\ last'.res.raised
            /\ leads' = leads
            /\ tasks' = tasks
            /\ pending' = pending]_vars

\* A merge of a lead with itself has been rejected.
C17_Witness ==
  /\ last.op = "merge" /\ last.res.raised
  /\ last.id # 0 /\ last.id = last.n.id /\ Live(last.id)

\* C18: a merge that goes through deletes the secondary and gives each of
\* its tasks to the primary, the task otherwise as it was; the lead-deleted
\* handler the merge triggers then finds no task to delete.
C18_MergeKeepsTasks ==
  [][/\ (last'.op = "merge" /\ ~last'.res.raised) =>
          LET p == last'.id
              s == last'.n.id
          IN /\ leads'[s].state # "live"
             /\ DOMAIN tasks' = DOMAIN tasks
             /\ \A t \in TaskIds(tasks) :
                  tasks'[t] = IF tasks[t].leadId = s THEN [tasks[t] EXCEPT !.leadId = p]
                              ELSE tasks[t]
     /\ last'.op = "onLeadDelete" =>
          /\ tasks' = tasks
          /\ leads'[last'.id].state # "live"]_vars

\* The handler has run for the secondary of a merge, and a lead holds two of
\* the tasks that onLeadCreate makes one of per lead.
C18_Witness ==
  /\ last.op = "onLeadDelete"
  /\ \E p \in LeadIds :
       /\ Live(p)
       /\ Cardinality({t \in TaskIds(tasks) :
                         /\ tasks[t].leadId = p
                         /\ tasks[t].description = "Send initial contact"}) >= 2

\* The ids of a list of interactions, and whether no two entries share one.
Ids(log) == {log[i].id : i \in DOMAIN log}

UniqueIds(log) == \A i, j \in DOMAIN log : log[i].id = log[j].id => i = j

\* C19: a merge unions the two interaction lists by id: when the primary's
\* list and the secondary's each hold unique ids, the primary's list after
\* the merge holds every id of either list, each once; an entry of the
\* secondary whose id the primary already has is not added again, whatever its
\* other fields.
C19_MergeUnionsById ==
  [][(last'.op = "merge" /\ ~last'.res.raised) =>
       LET p == last'.id
           s == last'.n.id
       IN (UniqueIds(leads[p].interactions) /\ UniqueIds(leads[s].interactions)) =>
            /\ Ids(leads[p].interactions) \cup Ids(leads[s].interactions)
                  \subseteq Ids(leads'[p].interactions)
            /\ UniqueIds(leads'[p].interactions)]_vars

\* The entries of a list of interactions, the createdAt of the merge entries
\* left out: it is the server time of the commit that wrote them.
Entries(log) ==
  {IF log[i].id[1] = "merge" THEN [log[i] EXCEPT !.createdAt = 0] ELSE log[i] :
     i \in DOMAIN log}

\* The interactions of A after B is merged into A and then C into A, and
\* after C is merged into B and then B into A.
BThenC(A, B, C) ==
  merge_commit(merge_commit(leads, tasks, A, B, 1).leads, tasks, A, C, 2).leads[A].interactions

CIntoBFirst(A, B, C) ==
  merge_commit(merge_commit(leads, tasks, B, C, 1).leads, tasks, A, B, 2).leads[A].interactions

Three == {t \in LeadIds \X LeadIds \X LeadIds :
            /\ t[1] # t[2] /\ t[1] # t[3] /\ t[2] # t[3]
            /\ Live(t[1]) /\ Live(t[2]) /\ Live(t[3])}

\* C20: merge is associative on interaction sets: for three leads A, B, C,
\* merging B into A and then C into A leaves A the set of interactions that
\* merging C into B and then B into A leaves it.
C20_MergeAssociative ==
  \A t \in Three :
    Entries(BThenC(t[1], t[2], t[3])) = Entries(CIntoBFirst(t[1], t[2], t[3]))

\* Three leads with interactions of their own, whose merge holds the three
\* and the two merge entries.
C20_Witness ==
  \E t \in Three :
    /\ \A k \in 1..3 : leads[t[k]].interactions # <<>>
    /\ Cardinality(Entries(BThenC(t[1], t[2], t[3]))) >= 5

\* C21: after every Payment-Plan Sync the lead's reminder tasks correspond one
\* to one with the Unpaid installments that have a due date: one reminder task
\* for each, due one day before the installment, and no reminder task beyond
\* these (none left for an installment that was paid or removed), also when
\* two installments have the same amount or an amount changes.
ReminderTasks(ts, l) ==
  {t \in TaskIds(ts) :
     /\ ts[t].leadId = l
     /\ ts[t].description \in {PaymentReminderDesc(a) : a \in PlanAmounts}}

UnpaidDated(plan) ==
  {i \in DOMAIN plan : plan[i].status = "Unpaid" /\ plan[i].dueDate # NoDate}

OneToOne(ts, l, plan) ==
  \E f \in [UnpaidDated(plan) -> ReminderTasks(ts, l)] :
     /\ \A i, j \in UnpaidDated(plan) : i # j => f[i] # f[j]
     /\ \A t \in ReminderTasks(ts, l) : \E i \in UnpaidDated(plan) : f[i] = t
     /\ \A i \in UnpaidDated(plan) : ts[f[i]].dueDate = plan[i].dueDate - 1

PlanSynced ==
  /\ last'.op = "logProcessor"
  /\ last'.n.plan_before # last'.n.doc.paymentPlan

C21_RemindersMatchInstallments ==
  [][PlanSynced => OneToOne(tasks', last'.id, last'.n.doc.paymentPlan)]_vars

\* C22: normalize_phone is idempotent, normalize_phone(normalize_phone(x)) =
\* normalize_phone(x) for every input x, and its result contains only digits;
\* the number the import stores for a row is that result.
OnlyDigits(s) == \A i \in DOMAIN s : matches_d(s[i])

Stored(doc) == IF doc.phones = <<>> THEN <<>> ELSE doc.phones[1].number

C22_NormalizePhoneIdempotent ==
  [][last'.op = "import" /\ last'.res.created = 1 =>
       LET x == last'.phone_number
           y == normalize_phone(x)
       IN /\ Stored(leads'[last'.id]) = y
          /\ normalize_phone(Text(y)) = y
          /\ OnlyDigits(y)]_vars

C22_Witness ==
  /\ last.op = "import"
  /\ last.res.created = 1
  /\ last.phone_number.json = "string"
  /\ \E i \in DOMAIN last.phone_number.chars : ~matches_d(last.phone_number.chars[i])
  /\ Len(Stored(leads[last.id])) = 2

\* C23: an error on one overdue task does not end the sweep: every other
\* overdue Interactive task, one whose lead exists, is completed and gets its
\* Unresponsive interaction in the same run.
SweptInRun(t) ==
  /\ tasks'[t].completed
  /\ \E i \in DOMAIN leads'[tasks[t].leadId].interactions :
       leads'[tasks[t].leadId].interactions[i].id = <<"sys", t, 0>>

C23_SweepOutlivesError ==
  [][last'.op = "sweep" =>
       \A t \in overdue_tasks(tasks) :
          tasks[t].leadId # 0 /\ Live(tasks[t].leadId) => SweptInRun(t)]_vars

\* The step is logProcessor's, dispatching the interaction that was appended
\* to the log of the live lead l.
Dispatched(l) ==
  /\ last'.op = "logProcessor"
  /\ last'.id = l
  /\ Live(l)
  /\ Len(last'.n.doc.interactions) > last'.n.logged_before

Log == LastLog(last'.n.doc)

\* The tasks of lead l created by the step, with what they are.
Created(l) == {t \in TaskIds(tasks') : t \notin DOMAIN tasks /\ tasks'[t].leadId = l}

CreatedAs(l, description, nature, due_date) ==
  {t \in Created(l) : /\ tasks'[t].description = description
                       /\ tasks'[t].nature = nature
                       /\ tasks'[t].dueDate = due_date
                       /\ ~tasks'[t].completed}

\* C24: the dispatch of a responsive quick log (Followup, Unchanged, or a log
\* with no quick-log type, no outcome and no feedback) leaves hasEngaged true
\* and afc_step 1, every Interactive task that was open completed, and exactly
\* one open Interactive task, "Day 1 Follow-up", due the day after.
IsResponsive(log) ==
  /\ ~log.feedback
  /\ log.outcome = ""
  /\ log.quickLogType \in {"", "Followup", "Unchanged"}

C24_ResponsiveLogRestartsCycle ==
  [][\A l \in LeadIds :
       Dispatched(l) /\ IsResponsive(Log) =>
         /\ leads'[l].hasEngaged
         /\ leads'[l].afc_step = 1
         /\ \A t \in OpenInteractive(l, tasks) :
              tasks'[t].state = "live" /\ tasks'[t].completed
         /\ OpenInteractive(l, tasks') =
              CreatedAs(l, DayFollowUp(1), "Interactive", now + 1)
         /\ Cardinality(OpenInteractive(l, tasks')) = 1]_vars

C24_Witness ==
  /\ last.op = "logProcessor"
  /\ IsResponsive(LastLog(last.n.doc))
  /\ LastLog(last.n.doc).quickLogType = "Unchanged"
  /\ leads[last.id].afc_step = 1
  /\ \E t \in TaskIds(tasks) :
       /\ tasks[t].leadId = last.id
       /\ tasks[t].completed
       /\ tasks[t].description = "Scheduled Follow-up"
  /\ Cardinality(OpenInteractive(last.id, tasks)) = 1

\* C25: the dispatch of an Enrolled, Withdrawn or Invalid quick log sets status
\* to that value, afc_step to 0 and hasEngaged to true and leaves the lead no
\* open Interactive task and no open follow-up task; Enrolled also sets
\* relationship to Learner and creates exactly one Procedural set-up task due
\* the day after, Withdrawn and Invalid create no task.
IsClosing(log) ==
  /\ ~log.feedback
  /\ log.outcome = ""
  /\ log.quickLogType \in Closed

C25_ClosingLogEndsCycle ==
  [][\A l \in LeadIds :
       Dispatched(l) /\ IsClosing(Log) =>
         /\ leads'[l].status = Log.quickLogType
         /\ leads'[l].afc_step = 0
         /\ leads'[l].hasEngaged
         /\ OpenInteractive(l, tasks') = {}
         /\ \A t \in OpenIn(l, tasks') : ~HasFollowUp(tasks'[t].description)
         /\ IF Log.quickLogType = "Enrolled"
            THEN /\ leads'[l].relationship = "Learner"
                 /\ Created(l) = CreatedAs(l, EnrolledSetupDesc, "Procedural", now + 1)
                 /\ Cardinality(Created(l)) = 1
            ELSE Created(l) = {}]_vars

C25_Witness ==
  /\ last.op = "logProcessor"
  /\ IsClosing(LastLog(last.n.doc))
  /\ LastLog(last.n.doc).quickLogType = "Enrolled"
  /\ last.n.doc.afc_step = 1
  /\ leads[last.id].relationship = "Learner"
  /\ \E t \in TaskIds(tasks) :
       /\ tasks[t].leadId = last.id
       /\ tasks[t].completed
       /\ tasks[t].description = DayFollowUp(1)
  /\ \E t \in OpenIn(last.id, tasks) : tasks[t].description = EnrolledSetupDesc

\* C26: the dispatch of an outcome Info sets hasEngaged to true and afc_step
\* to 0 and creates exactly one Procedural task due the day after; it changes
\* neither the status nor any task that existed.
IsOutcome(log, outcome) == ~log.feedback /\ log.outcome = outcome

C26_InfoPausesCycle ==
  [][\A l \in LeadIds :
       Dispatched(l) /\ IsOutcome(Log, "Info") =>
         /\ leads'[l].hasEngaged
         /\ leads'[l].afc_step = 0
         /\ leads'[l].status = leads[l].status
         /\ \A t \in DOMAIN tasks : tasks'[t] = tasks[t]
         /\ Created(l) = CreatedAs(l, DefaultInfoNotes, "Procedural", now + 1)
         /\ Cardinality(Created(l)) = 1]_vars

C26_Witness ==
  /\ last.op = "logProcessor"
  /\ IsOutcome(LastLog(last.n.doc), "Info")
  /\ last.n.doc.afc_step = 1
  /\ leads[last.id].afc_step = 0
  /\ leads[last.id].status = "Active"
  /\ \E t \in OpenInteractive(last.id, tasks) : tasks[t].description = DayFollowUp(1)
  /\ \E t \in OpenIn(last.id, tasks) : tasks[t].description = DefaultInfoNotes

\* C27: the dispatch of an outcome Later sets hasEngaged to true and afc_step
\* to 0 whether or not the log carries a followUpDate, and creates one
\* Interactive task, due at followUpDate, exactly when it carries one.
C27_LaterPausesCycle ==
  [][\A l \in LeadIds :
       Dispatched(l) /\ IsOutcome(Log, "Later") =>
         /\ leads'[l].hasEngaged
         /\ leads'[l].afc_step = 0
         /\ IF Log.followUpDate # NoDate
            THEN /\ Created(l) = CreatedAs(l, "Scheduled Follow-up", "Interactive",
                                           Log.followUpDate)
                 /\ Cardinality(Created(l)) = 1
            ELSE Created(l) = {}]_vars

\* C28: the dispatch of an outcome Event Scheduled that carries an event time
\* completes every open Interactive task of the lead and creates one
\* Procedural confirmation task due on the event's day (at 06:00) and, exactly
\* when the event is at least 3 days after now, one Procedural reminder task
\* due one day before the event; status and afc_step stay as they were.
C28_EventScheduledTasks ==
  [][\A l \in LeadIds :
       Dispatched(l) /\ IsOutcome(Log, "Event Scheduled") /\ Log.dateTime # NoDate =>
         LET confirms == CreatedAs(l, ConfirmDesc(Log.eventType), "Procedural",
                                   Log.dateTime)
             reminds == CreatedAs(l, RemindDesc(Log.eventType), "Procedural",
                                  Log.dateTime - 1)
         IN /\ OpenInteractive(l, tasks') = {}
            /\ \A t \in OpenInteractive(l, tasks) : tasks'[t].completed
            /\ Cardinality(confirms) = 1
            /\ Cardinality(reminds) = IF Log.dateTime - now >= 3 THEN 1 ELSE 0
            /\ Created(l) = confirms \cup reminds
            /\ leads'[l].status = leads[l].status
            /\ leads'[l].afc_step = leads[l].afc_step]_vars

\* C29: when an Event Scheduled log carries rescheduledFrom, the open
\* confirmation and reminder tasks of the event scheduled before (of its type,
\* be the new event's type the same or not) are deleted before the new tasks
\* are created: after the dispatch none of them remains, and the new event's
\* confirmation task is there.
EventTasks(l, ts) ==
  {t \in OpenIn(l, ts) : HasConfirm(ts[t].description) \/ HasRemind(ts[t].description)}

C29_RescheduleDeletesOldEventTasks ==
  [][\A l \in LeadIds :
       /\ Dispatched(l)
       /\ IsOutcome(Log, "Event Scheduled")
       /\ Log.rescheduledFrom
       /\ Log.dateTime # NoDate
       => /\ \A t \in EventTasks(l, tasks) : tasks'[t].state = "deleted"
          /\ EventTasks(l, tasks') \subseteq Created(l)
          /\ \E t \in Created(l) : tasks'[t].description = ConfirmDesc(Log.eventType)]_vars

\* C30: marking a Procedural task completed (a learner set-up task, a payment
\* reminder, a confirmation, a reminder or an Info task) never changes the
\* afc_step or the status of the lead that owns it and never creates,
\* completes or deletes an Interactive task.  The steps a completion leads to
\* are onTaskUpdate on the task and logProcessor on the entry it logs.
InteractiveTasks(l, ts) ==
  {t \in TaskIds(ts) : ts[t].leadId = l /\ ts[t].nature = "Interactive"}

FollowsCompletion(l) ==
  \/ /\ last'.op = "onTaskUpdate"
     /\ last'.n.task.nature = "Procedural"
     /\ last'.n.task.leadId = l
  \/ /\ Dispatched(l)
     /\ Log.id[1] = "sys_task"

C30_ProceduralCompletionLeavesCycle ==
  [][\A l \in LeadIds :
       FollowsCompletion(l) =>
         /\ leads'[l].afc_step = leads[l].afc_step
         /\ leads'[l].status = leads[l].status
         /\ InteractiveTasks(l, tasks') = InteractiveTasks(l, tasks)
         /\ \A t \in InteractiveTasks(l, tasks) : tasks'[t] = tasks[t]]_vars

\* The step is the dispatch, for the live lead l, of an Unresponsive
\* interaction that the daily sweep logged.
SweepUnresponsive(l) ==
  /\ UnresponsiveDispatched(l)
  /\ Log.id[1] = "sys"

\* C31: a lead that has never engaged, at afc_step 1..5, on the dispatch of a
\* sweep-generated Unresponsive interaction keeps hasEngaged false, never
\* becomes Cooling, moves from step s < 5 to s + 1 and from step 5 to step 0
\* with status Dormant.
C31_NeverEngagedEndsDormant ==
  [][\A l \in LeadIds :
       (/\ SweepUnresponsive(l)
        /\ ~leads[l].hasEngaged
        /\ leads[l].afc_step \in 1..5)
       => /\ ~leads'[l].hasEngaged
          /\ leads'[l].status # "Cooling"
          /\ leads'[l].afc_step = (IF leads[l].afc_step = 5 THEN 0 ELSE leads[l].afc_step + 1)
          /\ (leads[l].afc_step = 5 => leads'[l].status = "Dormant")]_vars

\* The live lead l is in the follow-up cycle with no open Interactive task
\* and no handler left to run.
Stranded(l) ==
  /\ Live(l)
  /\ Quiescent
  /\ leads[l].afc_step > 0
  /\ OpenInteractive(l, tasks) = {}

\* C32: a run of the daily sweep repairs every lead it finds with afc_step > 0
\* and no open Interactive task: after the run the lead has afc_step > 0 iff
\* it has an open follow-up task.
C32_SweepRepairsStrandedLead ==
  [][\A l \in LeadIds :
       (last'.op = "sweep" /\ Stranded(l))
       => (leads'[l].afc_step > 0 <=> OpenFollowUps(l)' # {})]_vars

\* C36: the dispatch of the "Initiated" interaction that an import wrote on a
\* lead changes neither the lead's afc_step, status or hasEngaged nor any
\* task: none is created, completed or deleted.
C36_InitiatedLeavesCycle ==
  [][\A l \in LeadIds :
       (Dispatched(l) /\ Log.quickLogType = "Initiated")
       => /\ leads'[l].afc_step = leads[l].afc_step
          /\ leads'[l].status = leads[l].status
          /\ leads'[l].hasEngaged = leads[l].hasEngaged
          /\ tasks' = tasks]_vars

\* C39: the dispatch of the update a merge made to the surviving lead l (the
\* last entry of its log is the merge's own) changes neither the lead's
\* afc_step, status or hasEngaged nor any task: none is completed, deleted or
\* created.
C39_MergeLeavesCycle ==
  [][\A l \in LeadIds :
       (Dispatched(l) /\ Log.id[1] = "merge")
       => /\ leads'[l].afc_step = leads[l].afc_step
          /\ leads'[l].status = leads[l].status
          /\ leads'[l].hasEngaged = leads[l].hasEngaged
          /\ tasks' = tasks]_vars

\* The lead and the tasks after the entries i..n of the snapshot's log have
\* been dispatched one after the other, in log order.
RECURSIVE DispatchEach(_, _, _, _, _, _)
DispatchEach(l, cur, ts, data_after, i, n) ==
  IF i > n THEN [lead |-> cur, tasks |-> ts]
  ELSE LET r == dispatch(l, cur, ts, data_after, data_after.interactions[i])
       IN DispatchEach(l, r.lead, r.tasks, data_after, i + 1, n)

\* C34: when an update has appended k >= 1 interactions to the log of lead
\* l, the update handler leaves the lead and the tasks as the dispatch of each
\* of the k new interactions, in log order, leaves them: none is skipped.
C34_EveryNewInteractionDispatched ==
  [][\A l \in LeadIds :
       (Dispatched(l) /\ last'.n.doc.paymentPlan = last'.n.plan_before)
       => LET data_after == last'.n.doc
              r == DispatchEach(l, leads[l], tasks, data_after,
                                last'.n.logged_before + 1, Len(data_after.interactions))
          IN leads'[l] = r.lead /\ tasks' = r.tasks]_vars

\* C37: a merge called with two distinct non-empty ids that raises (one of
\* the two leads does not exist) surfaces an error whose code is NOT_FOUND.
C37_MissingLeadIsNotFound ==
  [][(/\ last'.op = "merge"
      /\ last'.res.raised
      /\ last'.id # 0
      /\ last'.n.id # 0
      /\ last'.id # last'.n.id)
     => last'.res.code = "NOT_FOUND"]_vars

\* The live leads with the row's email, and those with a stored phone entry
\* whose number is one of the row's phone numbers.
EmailMatches(row) ==
  {l \in LeadIds : Live(l) /\ row.email # "" /\ leads[l].email = row.email}

RowNumbers(row) == {normalize_phone(row.phone1), normalize_phone(row.phone2)} \ {<<>>}

PhoneMatches(row) ==
  {l \in LeadIds : /\ Live(l)
                   /\ \E i \in DOMAIN leads[l].phones :
                        leads[l].phones[i].number \in RowNumbers(row)}

\* C35: the import of a row whose email matches no lead and one of whose
\* phone numbers, the first or the second, is the number of a stored phone
\* entry of a lead takes the row to be such a lead; a row is created as a new
\* lead only if neither its email nor any of its phone numbers matches.
C35_MatchByEmailThenAnyPhone ==
  [][\A row \in MatchRows, is_new_mode \in BOOLEAN :
       importContactsJson(row, is_new_mode, FALSE)
       => /\ (EmailMatches(row) = {} /\ PhoneMatches(row) # {})
               => last'.id \in PhoneMatches(row) /\ last'.res.created = 0
          /\ last'.res.created = 1
               => EmailMatches(row) = {} /\ PhoneMatches(row) = {}]_vars

\* A merge has deleted lead s: some log holds the merge entry that names it.
MergedAway(s) ==
  \E l \in LeadIds : \E i \in DOMAIN leads[l].interactions :
     leads[l].interactions[i].id = <<"merge", s, 0>>

\* C38: whatever the dispatcher and the sweep do beside a merge, the cascade
\* that follows the deletion of the merged lead s deletes no task: every task
\* created for s, before or after the merge read its tasks, is still there.
C38_MergeLosesNoTask ==
  [][\A s \in LeadIds :
       (last'.op = "onLeadDelete" /\ last'.id = s /\ MergedAway(s))
       => \A t \in TaskIds(tasks) : t \in TaskIds(tasks')]_vars

\* The Unresponsive entries the sweep has logged on lead l.
SweepEvents(l) ==
  {i \in DOMAIN leads[l].interactions : leads[l].interactions[i].id[1] = "sys"}

LoopOpen(l) == Live(l) /\ OpenInteractive(l, tasks) # {}

LoopClosed(l) ==
  /\ leads[l].afc_step = 0
  /\ leads[l].status \in {"Cooling", "Dormant"}
  /\ OpenInteractive(l, tasks) = {}

\* C33: with no interaction from outside and the clock, the sweep and the
\* handlers running fairly, a lead that has an open Interactive task
\* eventually is at afc_step 0 with status Cooling or Dormant and no open
\* Interactive task, and the sweep never logs more than 5 Unresponsive
\* entries on a lead.
C33_LoopCloses ==
  /\ \A l \in 1..MaxLeads : LoopOpen(l) ~> LoopClosed(l)
  /\ [](\A l \in LeadIds : Cardinality(SweepEvents(l)) <= 5)

\* The loop has closed for two leads: one, never engaged and imported at the
\* last stage, was swept once and is Dormant; the other went through four
\* sweeps and is Cooling.
C33_Witness ==
  /\ Quiescent
  /\ \E l, k \in LeadIds :
       /\ LoopClosed(l) /\ LoopClosed(k)
       /\ leads[l].status = "Dormant" /\ Cardinality(SweepEvents(l)) = 1
       /\ leads[k].status = "Cooling" /\ Cardinality(SweepEvents(k)) = 4

====
